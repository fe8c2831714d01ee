--------------------------- MODULE MCReportPages ---------------------------
(***************************************************************************)
(* Instance of ReportPages for TLC.                                        *)
(***************************************************************************)
EXTENDS ReportPages

CONSTANTS chart1, chart2, filter1

MCPages == {"rent-roll", "trial-balance", "profit-and-loss", "ar-aging", "ap-aging"}
TrialBalanceOnly == {"trial-balance"}
MCCharts == {chart1, chart2}
MCFilters == {filter1, Blank}
=============================================================================
