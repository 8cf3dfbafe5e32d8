----------------------------- MODULE MCApiServer -----------------------------
(***************************************************************************)
(* Three requests on a pool of one connection and an overflow of one: one  *)
(* waits, and the connection beyond the pool size is closed.  An outage    *)
(* may fall into any of their steps.                                       *)
(***************************************************************************)
EXTENDS ApiServer

MCRaised == {"ResourceNotFoundError", "OAuthExchangeError", "Exception"}
===============================================================================
