---------------------------- MODULE MCXimToggle ----------------------------
(* XimServer with the user's toggle keys told apart from the other keys.   *)
EXTENDS XimServer

CONSTANT ToggleKeys   \* the key events that open or close the IME

(* Key event e of c was on its way to be handled and is now gone.          *)
Kept(c, e) ==
  /\ \E n \in DOMAIN Unresolved(c) : Unresolved(c)[n] = e
  /\ \A n \in DOMAIN Unresolved(c)' : Unresolved(c)'[n] # e
  /\ \A n \in DOMAIN toClient'[c] : ~(IsKey(toClient'[c][n]) /\ KeyOf(toClient'[c][n]) = KeyOf(e))

(* "Filtered toggle ime key like Alt+VK_KANJI" (winimserver.c): of the key  *)
(* events of an open connection only those that toggle the IME are kept    *)
(* back by the handler of XIM_FORWARD_EVENT.                               *)
OnlyToggleKeysKept ==
  [][\A c \in Clients : \A n \in DOMAIN Unresolved(c) :
       Kept(c, Unresolved(c)[n]) /\ record'[c] # "freed"
         => Unresolved(c)[n].key \in ToggleKeys]_vars
=============================================================================
