--------------------------- MODULE MCStreamSession ---------------------------
(* The three clients and a fourth that may be started as a second data     *)
(* client; payloads of more bytes than one send or recv passes.            *)
EXTENDS StreamSession
LOCAL INSTANCE TLC

CONSTANTS dataClient, seedClient, outClient, secondData

MCRole == (dataClient :> "d") @@ (seedClient :> "s") @@ (outClient :> "o")
            @@ (secondData :> "d")
=============================================================================
