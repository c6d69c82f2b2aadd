CONSTANTS
  Words <- MCWords
  Slashed <- MCSlashed
  AfterSlash <- MCAfterSlash
  LoginIssuers <- MCLoginIssuers
  StsIssuers <- MCStsIssuers
  TenantOf <- MCTenantOf
  StsIssuerOf <- MCStsIssuerOf
  NumberText <- MCNumberText
  Settings <- MCAzureSettings
  KeySets <- MCKeySets
  Presented <- MCPresented
  Now = 1
SPECIFICATION DecisionSpec
INVARIANT ScopesGranted
CHECK_DEADLOCK FALSE
