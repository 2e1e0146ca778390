CONSTANTS
  MaxLen <- MCMaxLen
  EtherTypes <- MCEtherTypes
  VerIhlVals <- MCVerIhlVals
  ProtoVals <- MCProtoVals
  PortVals <- MCPortVals
  GtpTypeVals <- MCGtpTypeVals
  TeidVals <- MCTeidVals

SPECIFICATION Spec

INVARIANT GtpV1Only
