---------------------------- MODULE CostTracking ----------------------------
(***************************************************************************)
(* aether/extensions/llm/cost_tracking.py: the token counts that the       *)
(* outermost decorator picks from the chunks of a stream and adds to the   *)
(* usage of the client when the stream has ended normally.                 *)
(***************************************************************************)
EXTENDS Integers

VARIABLES
    final,          \* final_input, final_output and final_model of the stream,
    by_model        \* UsageStats.by_model

(* Counts are natural numbers, and so are the names of models.             *)
None == -1
NothingCaptured == [input |-> None, output |-> None, model |-> None]

TrackingInit == final = NothingCaptured /\ by_model = << >>

(* Slip: the counts of the chunks, which are running totals, are added up. *)
CapturedSum(chunk) ==
    [f \in DOMAIN final |->
        IF chunk[f] = None THEN final[f]
        ELSE IF f = "model" \/ final[f] = None THEN chunk[f] ELSE final[f] + chunk[f]]

(* Each field keeps the last value that a chunk carried.                   *)
Captured(chunk) ==
    [f \in DOMAIN final |-> IF chunk[f] # None THEN chunk[f] ELSE final[f]]

(* TokenUsage(), and _record with its add.                                 *)
UsageOf(model) ==
    IF model \in DOMAIN by_model THEN by_model[model]
    ELSE [input |-> 0, output |-> 0, requests |-> 0]

Record(usage) ==
    by_model' = [m \in DOMAIN by_model \cup {usage.model} |->
        IF m # usage.model THEN by_model[m]
        ELSE [input    |-> UsageOf(m).input + usage.input,
              output   |-> UsageOf(m).output + usage.output,
              requests |-> UsageOf(m).requests + 1]]

(* The end of a stream: counts that are not all there are not recorded.    *)
RecordFinal ==
    IF \A f \in DOMAIN final : final[f] # None THEN Record(final) ELSE UNCHANGED by_model
=============================================================================
