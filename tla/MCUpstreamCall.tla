-------------------------- MODULE MCUpstreamCall --------------------------
(***************************************************************************)
(* The runs of UpstreamCall: a call that returned stays as it is.          *)
(***************************************************************************)
EXTENDS UpstreamCall

AllKinds == {"direct", "socks5", "http", "https"}
AllSchemes == {"http", "https"}

=============================================================================
