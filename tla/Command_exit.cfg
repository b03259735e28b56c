SPECIFICATION Spec
CONSTANTS
    CommandLines <- MCCommandLines
    Results <- MCResults
    Statuses = {"pass", "fail", "not_assessed"}
INVARIANTS ZeroIsEarned DeliveredOrSaid ExportIsWhole OwnPluginsStay PolicyAsAsked TargetsKept
