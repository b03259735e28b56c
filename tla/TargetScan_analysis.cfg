SPECIFICATION Spec
CONSTANTS
    ThePolicy <- MCPolicy
    Cases <- MCCases
    Plugins <- MCPlugins
    Says = {"nothing", "detected", "raises"}
INVARIANTS NotSilent ClearedOnVersionOnly WordAndGradeAgree PassIsProof ChecksNeverGrade AdviceNeverHurts RevokedIsReported AuditIsHonest ChainIsGenuine ReportExplains
