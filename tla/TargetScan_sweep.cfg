SPECIFICATION Spec
CONSTANTS
    ThePolicy <- MCPolicy
    Cases <- MCCases
    Plugins <- MCPlugins
    Says = {"nothing", "detected", "raises"}
INVARIANTS NoAccountCountedAsClean
