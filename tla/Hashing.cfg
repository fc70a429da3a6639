CONSTANTS
  Alg <- MCAlg
  size_block <- MCBlock
  size_len_8 <- MCLen
  size_hash <- MCHash
  CounterWord <- MCCounter
  PadForm <- MCPad
  Weak = {"SHA1"}
  Label <- MCLabel
  label_key <- KeyLabel
  label_iv <- IvLabel
  label_exporter <- ExpLabel
  label_client <- CliLabel
  label_server <- SrvLabel
  LabelMax = 3
  InfoSize = 14
  KeyLen <- MCKeyLen
  IvLen = 3
  PlainHash = "SHA2_256"
  PlainAead = "AES_128_GCM"
  Blocks <- MCBlocks
  Lasts <- MCLasts
  Calls <- MCCalls
  Prefixed <- MCPrefixed
  ConIds <- MCConIds
  Salt <- MCSalt
  MaxBlocks = 4
  MaxSecrets = 4
SPECIFICATION Spec
INVARIANTS TypeOK DigestIsHash CallsAreStandard KeysSeparated
CHECK_DEADLOCK FALSE
