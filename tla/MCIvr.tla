-------------------------------- MODULE MCIvr --------------------------------
(* A greeting, a menu that leads to a queue or a second menu, and a hang-up. *)
EXTENDS IvrSession, TLC
CONSTANTS hello, menu, second, queue, bye, silent, k1, k2
MCNodes == {hello, menu, second, queue, bye, silent}
MCKind == hello :> "play" @@ menu :> "menu" @@ second :> "menu" @@ queue :> "transfer"
          @@ bye :> "hangup" @@ silent :> "play"
MCFollow == <<hello, "next">> :> menu @@ <<menu, k1>> :> queue @@ <<menu, k2>> :> second
            @@ <<second, k1>> :> silent @@ <<second, k2>> :> bye
==============================================================================
