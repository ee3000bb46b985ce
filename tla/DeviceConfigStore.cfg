\* One transaction identity and one secret beside none, up to revision 3: each slot is
\* written at least once and one of them twice.
\* Torn and failed writes and erases, power loss anywhere, readable media.
SPECIFICATION Spec
CONSTANTS
  Txns = {t1}
  NoTxn = NoTxn
  Secrets = {s1}
  NoSecret = NoSecret
  Empty = Empty
  Torn = Torn
  LateLanding = FALSE
  UnreadableBoots = FALSE
  MaxRev = 3
INVARIANTS
  GenerationIsKept
  ChangesAreInTurn
PROPERTIES
  KeepsPromise
