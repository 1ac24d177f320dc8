\* One plain run whose playbook writes no more than one line.
SPECIFICATION FairSpec
CONSTANTS
    Owner = owner
    Users = {owner, u1}
    Kinds = {"plain"}
    MaxLines = 1
PROPERTIES PlayedRunEnds
CHECK_DEADLOCK FALSE
