----------------------------- MODULE MCConfLoad -----------------------------
(* Every file of up to three settings drawn from the values below: each   *)
(* setting has a valid value and values that fail its loader at each of   *)
(* its checks, stdin and stdout included (an empty string, an integer, a  *)
(* path of PATH_MAX characters).  Names hold up to 3 characters           *)
(* (TINIT_SVC_NAME_MAX scaled to 4); the other strings up to 3 (their     *)
(* limits scaled to 4, PATH_MAX to 8).                                    *)
EXTENDS ConfLoad

MCNameMax == 4
MCStrMax == 4
MCPathMax == 8

N1 == Str(<<"a">>)
N2 == Str(<<"A", "-", "0">>)
Cmd(c) == Arr(<<Str(c)>>)

Values == [
    name        |-> {N1, N2, Str(<<"a", "-">>), Str(<<"a", "/", "a">>),
                     Str(<<"a", "a", "a", "a">>), IntV(1)},
    starton     |-> {Arr(<<N2>>), Arr(<<N1>>), Arr(<<N2, N2>>), Arr(<<>>),
                     Arr(<<Str(<<"-", "a">>)>>)},
    stopon      |-> {Arr(<<N2>>), Arr(<<N1, N2>>)},
    start       |-> {Lst(<<Cmd(<<"a">>)>>), Lst(<<>>), Lst(<<Cmd(<<"ctl">>)>>)},
    stop        |-> {Lst(<<Cmd(<<"a", " ">>), Cmd(<<"$">>)>>), IntV(0)},
    daemon      |-> {Cmd(<<"a">>), Cmd(<<"a", "a", "a", "a">>)},
    signal      |-> {Grp(<<Set(<<"stop">>, IntV(15))>>),
                     Grp(<<Set(<<"reload">>, IntV(32))>>),
                     Grp(<<Set(<<"stop">>, IntV(64)), Set(<<"reload">>, IntV(65))>>),
                     Grp(<<Set(<<"hup">>, IntV(1))>>), Grp(<<>>)},
    description |-> {Str(<<"a", " ", "$">>), Str(<<"nl">>)},
    stdin       |-> {Str(<<"DEV", "a">>), Str(<<"DEV">>), Str(<<"a">>), Str(<<"$">>),
                     Str(<<>>), IntV(0)},
    stdout      |-> {Str(<<"/", "a">>), Str(<<"$">>), Str(<<"DEV", "a", "a", "a">>)},
    environ     |-> {Grp(<<Set(<<"A", "_">>, Str(<<"a", "/">>))>>),
                     Grp(<<Set(<<"0", "A">>, Str(<<"a">>))>>),
                     Grp(<<Set(<<"A">>, Str(<<"$">>))>>)},
    user        |-> {Str(<<"a">>)}]

Settings == UNION {{Set(k, v) : v \in Values[k]} : k \in DOMAIN Values}

MCFiles ==
    UNION {{f \in [1..n -> Settings] :
               \A i, j \in 1..n : i # j => f[i].key # f[j].key} : n \in 0..3}
=============================================================================
