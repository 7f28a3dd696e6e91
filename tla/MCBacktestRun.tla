--------------------------- MODULE MCBacktestRun ----------------------------
(* BacktestRun with the constants of its .cfg files.                        *)
EXTENDS BacktestRun
=============================================================================
