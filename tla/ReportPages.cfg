SPECIFICATION Spec
CONSTANTS
    chart1 = chart1
    chart2 = chart2
    filter1 = filter1
    Blank = Blank
    None = None
    Pages <- MCPages
    Charts <- MCCharts
    Filters <- MCFilters
    MaxRuns = 2
    MaxExports = 3
    MaxChanges = 1
INVARIANTS
    ResultOfFilters
    ExportTrue
PROPERTY
    RunsOnDemand
