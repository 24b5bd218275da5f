------------------------ MODULE MCInspectionExecutor ------------------------
(* Requests and detector reports on which TLC checks InspectionExecutor.    *)
EXTENDS InspectionExecutor

\* Two images for the model "fire", with a second opinion, and one for "door", with
\* a threshold of zero to pass.
Tasks ==
  {[capture_count |-> 2, local_model |-> "fire", threshold |-> 2, use_vlm_fallback |-> TRUE],
   [capture_count |-> 1, local_model |-> "door", threshold |-> 0, use_vlm_fallback |-> FALSE]}

Seen(names, of, tag, found) ==
  [error |-> FALSE, listed |-> TRUE, active |-> names, model |-> of,
   tagged |-> tag, hits |-> found]

\* The target by "fire", by another model, too uncertain, and a failed inference.
Reports ==
  {Seen({"fire", "door"}, "", TRUE, {[model |-> "fire", confidence |-> 2]}),
   Seen({"fire", "door"}, "", TRUE, {[model |-> "door", confidence |-> 2]}),
   Seen({}, "fire", FALSE, {[model |-> "", confidence |-> 1]}),
   [Seen({"fire"}, "", FALSE, {}) EXCEPT !.error = TRUE]}
=============================================================================
