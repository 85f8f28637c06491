\* One id, one lookup beside the io_loop, loopback and two other addresses.
CONSTANTS
  None = None
  Id = {id1}
  Loopback = lo
  Ip = {lo, ip1, ip2}
  Uuid = {u1, u2}
  Pk = {k1, k2}
  Arc = {a1, a2}
  Task = {t1}
  RegLimit = 1
  ExpiredTimeIsPast = TRUE
SYMMETRY Symmetry
VIEW View
SPECIFICATION Spec
INVARIANTS
  Coherent
  AckedIsDurable
  KnownIsAnswered
  
PROPERTY UuidIsSettled
