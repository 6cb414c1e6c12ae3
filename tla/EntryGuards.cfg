CONSTANTS
  Circuits = {c1, c2}
  N_PRIMARY_GUARDS = 1
  N_PRIMARY_TO_USE = 1
  MIN_FILTERED_SAMPLE = 2
  MAX_SAMPLE = 3
  FirstSample = 2
  LastGuard = 3
  FirstAlive = {1, 3}
  Exits = {1}
  MaxEvents = 3
SPECIFICATION FairSpec
INVARIANTS
  EntryGuardsTypeOK
  GuardListsAgree
PROPERTY WorkingGuardIsUsed
