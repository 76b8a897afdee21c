SPECIFICATION MCSpec
CONSTANTS
  Families <- MCFamilies
  Checks = {"E006", "E007"}
  Partitions <- MCPartitions
  IsoPartitions = {"aws-iso"}
  Services = {"s3", "iam", "a"}
  Regions = {"us-east-1"}
  IsoRegions = {"us-iso-east-1"}
  AccountIDs = {"123456789012"}
  Letters <- MCLetters
  MaxName = 9
  DirectorySuffix <- MCDirectorySuffix
  Configs <- MCConfigs
  AwsTypes = {"aws_s3_bucket", "aws_lb_listener_rule", "aws_quicksight_data_source"}
  CidrValues <- MCCidrValues
  ArnValues <- MCArnValues
  Modules <- MCModules
  Filters <- MCFilters
  ResourceTypes <- MCResourceTypes
INVARIANTS
  ScopesLexical
  EverythingVisited
  DiagnosticsExact
  NoFalseAlarm
  LiteralsCaught
  ReportsExact
  ReportedNeverValid
CHECK_DEADLOCK FALSE
