--------------------------- MODULE MCFetchDownload ---------------------------
(* FetchDownload for TLC: two versions, of which the server may identify   *)
(* only one, and the requests that tell the decisions of reconcile apart.  *)
EXTENDS FetchDownload, TLC

CONSTANTS v1, v2, e1, e2, u1, u2, k1

MCLength == v1 :> 2 @@ v2 :> 3
MCValidator == v1 :> e1 @@ v2 :> e2
MCUnnamed == v1 :> e1 @@ v2 :> NoValidator

Request(mode, url, key, across, hash) ==
    [mode |-> mode, url |-> url, key |-> key, across |-> across, hash |-> hash]

(* One caller without a key, one with, and one that resumes across URLs. *)
MCRequests ==
    {Request("Resume", u1, NoKey, FALSE, TRUE),
     Request("Overwrite", u1, k1, FALSE, FALSE),
     Request("Resume", u2, k1, TRUE, TRUE)}

(* One caller, one URL. *)
OneRequest == {Request("Resume", u1, NoKey, FALSE, TRUE)}
=============================================================================
