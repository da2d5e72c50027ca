\* One configuration file: every file of up to three settings.
CONSTANTS
    Files <- MCFiles
    NameMax <- MCNameMax
    StrMax <- MCStrMax
    PathMax <- MCPathMax

SPECIFICATION Spec

INVARIANT TypeOK
INVARIANT LoadAccepts
 
