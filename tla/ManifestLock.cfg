\* One command after another.
CONSTANTS
    Commands = {c1}
    Supported = {claude, cursor}
    Folders = {src, docs}
    Installs = {v1, v2}
    Skills = {s1}
    Missing = missing
SPECIFICATION StoreSpec
INVARIANTS
    FoldersKept
PROPERTIES
    SelectionCarried
    OthersFieldsKept
