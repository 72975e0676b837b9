\* Two soldiers, in the driver together or one after the other.
CONSTANT Soldier = {s1, s2}
SPECIFICATION FairSpec
INVARIANTS TypeOK ParentListsMatch HandlerFindsSoldier NoOops
PROPERTY HandlerReturns
CHECK_DEADLOCK FALSE
