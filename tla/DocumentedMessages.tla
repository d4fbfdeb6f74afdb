------------------------- MODULE DocumentedMessages -------------------------
(***************************************************************************)
(* A statement of a comment about the messages that are signed which the   *)
(* code does not live up to.                                                *)
(***************************************************************************)
EXTENDS AppNervos

(* apdu_sign.c:1190: "Ensure the message begins with "Nervos Message:"".    *)
(* What the user is asked to sign with a key of the app, undisturbed by     *)
(* another command, begins with the magic bytes.  A first packet without    *)
(* them is refused, but it is counted: the next packet is hashed as a later *)
(* one, neither looked at nor shown, and the prompt comes with an empty row *)
(* for the text.                                                            *)
BeginsWithMagic ==
    ~Ready /\ screen.kind = "Message" /\ session.kind = "sign_msg" /\ session.key \in Keys =>
        Head(session.packets) \in WithMagic
=============================================================================
