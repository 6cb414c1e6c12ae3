\* Three authorities, two rounds per phase, a whole run and the first round of
\* the next; one vote lost and one crash anywhere.
SPECIFICATION Spec
CONSTANTS
  a1 = a1
  a2 = a2
  a3 = a3
  Authorities <- MCAuthorities
  SHARED_RANDOM_N_ROUNDS = 2
  NumSRVAgreements = 3
  MaxLosses = 1
  MaxMisses = 0
  MaxCrashes = 1
  LastSlot = 8
SYMMETRY AuthoritySymmetry
INVARIANTS
  SrTypeOK
  OneCommitmentPerRun
  PublishedSrvIsRandom
  LossIsTolerated
  LagsOnlyWithoutConsensus
PROPERTY
  NoCommitAfterReveal
