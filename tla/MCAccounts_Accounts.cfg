CONSTANTS
  None = None
  u1 = u1
  u2 = u2
  u3 = u3
  l1 = l1
  l2 = l2
  c1 = c1
  c2 = c2
  m1 = m1
  m2 = m2
  p1 = p1
  Ada = Ada
  ada = ada
  bob = bob
  UserId = {u1, u2, u3}
  Create = {u1, u2}
  Link = {l1, l2}
  Hash = {l1, l2}
  Confirm = {c1, c2}
  Update = {m1, m2}
  Prove = {p1}
  Kind = {"changeEmail", "verifyEmail"}
  Address = {Ada, ada, bob}
  Login = {Ada, ada, bob}
  Normal <- MCNormal
  NormalName <- MCNormalName
  Scene <- Scenes
SPECIFICATION Spec
SYMMETRY Interchangeable
CHECK_DEADLOCK FALSE
INVARIANTS
  LoginsIndexed
  FoundHoldsKey
  NoLostUpdate
  VerifiedByProof
  LeftLinksDead
