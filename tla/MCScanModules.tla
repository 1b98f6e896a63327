--------------------------- MODULE MCScanModules ---------------------------
(***************************************************************************)
(* Targets with and without scheme and port, a HAR file, a blank line and  *)
(* text that is no URL.                                                    *)
(***************************************************************************)
EXTENDS ScanModules

Url(scheme, port) == [form |-> "url", scheme |-> scheme, port |-> port]
NoUrl(form) == [form |-> form, scheme |-> "", port |-> ""]

AllTyped ==
  {Url("", ""), Url("", "other"), Url("http", ""),
   NoUrl("har"), NoUrl("blank"), NoUrl("malformed")}
=============================================================================
