SPECIFICATION FairSpec
CONSTANTS
  calm = calm
  vague = vague
  odd = odd
  safe = safe
  suspicious = suspicious
  violating = violating
  Post = {calm, vague, odd}
  Class = {safe, suspicious, violating}
  Safe = safe
  Call = {c1, c2}
  Trip = 2
  Tenths <- MCTenths
  ScanFinds = {calm}
  MaxPosts = 2
INVARIANTS
  ModelHasItsSay
PROPERTIES
  ContractSpec
  ModelServesAgain
