---------------------------- MODULE MCConnection ----------------------------
(***************************************************************************)
(* An instance of Connection: an event without payload, a reply with one,  *)
(* and a reply with a descriptor.                                          *)
(***************************************************************************)
EXTENDS Connection

MCPayloadSize == [k \in Kind |->
                    CASE k = "event" -> 0 [] k = "reply" -> 2 [] k = "device" -> 1]
=============================================================================
