\* Three partners, a threshold that can be met and one that cannot; one baked
\* configuration, six files, two environments and two runs of gen-keys.
SPECIFICATION FairSpec
CONSTANTS
  Partners = {p1, p2, p3}
  MIN_THRESHOLD = 2
  Thresholds = {2, 4}
  Ceremonies <- AllCeremonies
  Ours <- OurCeremony
  SignerOf <- Signers
  Baked <- BakedConfigs
  ConfigFiles <- Files
  Environments <- Variables
  KeyGens <- TwoRuns
  Garbled = Garbled
INVARIANTS
  ServesOneKeyset
  NeverServesOwnSigner
  ServesSoundConfig
  ServesObserved
PROPERTIES
  ComesUp
