------------------------------ MODULE Targets ------------------------------
(***************************************************************************)
(* Scan targets, as far as their scheme is concerned.  The orchestrator    *)
(* normalises them when it creates a scan and when it builds a plan, the   *)
(* worker once more before it runs a module:                               *)
(* src/orchestrator/models/target.go and src/worker/modules/target.go.     *)
(***************************************************************************)

(* A target: an absolute URL or host, the path of a HAR file, a blank      *)
(* line, or text that url.Parse refuses.  The scheme and the port are      *)
(* those the text names, "" for none.                                      *)
Target ==
  [form : {"url"}, scheme : {"", "http", "https"}, port : {"", "443", "8443", "other"}]
    \cup [form : {"har", "malformed"}, scheme : {"", "https"}, port : {""}]
    \cup [form : {"blank"}, scheme : {""}, port : {""}]

HasScheme(t) == t.scheme # ""

NormalizeTarget(t) ==
  IF t.form = "blank" \/ HasScheme(t) THEN t
  ELSE [t EXCEPT !.scheme = IF t.port \in {"", "443", "8443"} THEN "https" ELSE "http"]

(* The worker's copy of the rule.                                          *)
WorkerNormalizeTarget(t) == NormalizeTarget(t)
=============================================================================
