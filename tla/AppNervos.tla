------------------------------ MODULE AppNervos ------------------------------
(***************************************************************************)
(* The app around the parser: main_loop hands each command to its handler,  *)
(* the handlers keep their state in one union, global.apdu.u, put prompts   *)
(* on the screen and are called back with the user's answer, and the user   *)
(* switches settings in between.  Every order of commands, packets, answers,*)
(* switches and restarts is a behaviour.                                    *)
(*                                                                          *)
(* The union: writing one member overwrites the others.  u holds the member *)
(* written last.  Another member is read as zero after clear_data, which    *)
(* zeroes the largest one, and as anything that the bytes could mean else.  *)
(*                                                                          *)
(* A THROW leaves the handler for the SDK's own loop, which the repository  *)
(* has not: the host gets the status word and the app takes commands again, *)
(* with global as the handler left it (apdu_sign.c:1012 sets hard_reject    *)
(* for the next packet and throws), or the app ends and is opened again     *)
(* (Restart).  While a command is not answered the transport takes no other *)
(* one.                                                                     *)
(*                                                                          *)
(* The app is built for devices with buttons or for those with a touch      *)
(* screen (ui_bagl.c, ui_nbgl.c), where a callback is called before its     *)
(* prompt is gone: if it throws, the prompt stays when the host has long    *)
(* been answered, and the user can answer it again.                         *)
(***************************************************************************)
EXTENDS Naturals, Sequences

CONSTANTS
    Keys,          \* paths below 44'/309', which the system derives keys for
    ForeignPaths,  \* other well-formed paths
    Malformed,     \* a path read_bip32_path throws at
    NoKey,         \* what a key reads as in cleared memory
    Junk,          \* what another member's bytes are taken for
    Packets,       \* packets of a message
    WithMagic,     \* those that begin with "Nervos Message:"
    Hashes,        \* hashes of at most 32 bytes
    Blank,         \* an empty text
    MaxIndex       \* the largest packet_index, 0xFF

Paths == Keys \cup ForeignPaths

ASSUME PathsAssumption ==
    /\ {Malformed, NoKey, Junk} \cap Paths = {}
    /\ Malformed # NoKey
    /\ Junk # NoKey
ASSUME PacketsAssumption ==
    /\ WithMagic \subseteq Packets
    /\ {Blank, Junk} \cap Packets = {}
ASSUME IndexAssumption == MaxIndex \in Nat \ {0}

VARIABLES
    build,          \* which of the two files the app is built with
    N_data,         \* the settings
    u,              \* the union: the member written last and its value
    screen,         \* the prompt and its callbacks, or the menu
    response,       \* the answer to the last command
    session         \* history: what the host has told since the last P1_FIRST

vars == <<build, N_data, u, screen, response, session>>

-----------------------------------------------------------------------------
\* The members of the union.

ZeroSign ==
    [parse |-> "running", unsafe |-> FALSE, hard_reject |-> FALSE, is_valid |-> FALSE,
     tag |-> "pending"]

\* The parser is a black box here: tag says whether sign_complete has a screen.
Signs ==
    [parse : {"running", "complete"}, unsafe : BOOLEAN, hard_reject : BOOLEAN,
     is_valid : BOOLEAN, tag : {"pending", "presentable", "NONE"}]

ZeroMessage ==
    [key |-> NoKey, packet_index |-> 0, display_as_hex |-> FALSE, display |-> Blank,
     hash_state |-> <<>>, final_hash |-> <<>>]

JunkMessages ==
    [key : {Junk}, packet_index : 0 .. MaxIndex, display_as_hex : BOOLEAN, display : {Junk},
     hash_state : {<<Junk>>}, final_hash : {<<Junk>>}]

ZeroMessageHash == [key |-> NoKey, hash_to_sign |-> Blank]
JunkMessageHashes == [key : {Junk}, hash_to_sign : {Junk}]

Zeroed == [member |-> "all zero"]

Read(member, zero, junk) ==
    IF u.member = member THEN {u.value} ELSE IF u = Zeroed THEN {zero} ELSE junk

\* The key of ext_public_key, the only field of u.pubkey a callback reads.
pubkey == Read("pubkey", NoKey, {Junk})
sign == Read("sign", ZeroSign, Signs)
sign_msg == Read("sign_msg", ZeroMessage, JunkMessages)
sign_msg_hash == Read("sign_msg_hash", ZeroMessageHash, JunkMessageHashes)

Write(member, value) == u' = [member |-> member, value |-> value]
clear_data == u' = Zeroed

-----------------------------------------------------------------------------
\* Responses, prompts and the history.

Idle == [kind |-> "idle"]
NoResponse == [gives |-> "pending"]
Ready == response # NoResponse

Respond(r) == response' = r
Ok == [gives |-> "success"]
Error(status) == [gives |-> "error", status |-> status]

TransactionSignature == [gives |-> "transaction signature"]
Signature(kind, key, data) == [gives |-> kind, key |-> key, data |-> data]

\* A response to the command, and no prompt.
Reply(r) == Respond(r) /\ UNCHANGED screen
Throw(status) == Reply(Error(status))

\* ui_prompt: the response is left to the callbacks.
ui_prompt(p) == screen' = p /\ Respond(NoResponse)

Told(kind, key, as_hex) ==
    [kind |-> kind, key |-> key, packets |-> <<>>, as_hex |-> as_hex, refused |-> FALSE]
NothingTold == Told("cleared", NoKey, FALSE)
Disturbed == Told("disturbed", NoKey, FALSE)

\* The session a packet without P1_FIRST belongs to: cleared memory is that of
\* a session without a key.
Continued(kind) ==
    IF session.kind = kind THEN session
    ELSE IF session.kind = "cleared" THEN Told(kind, NoKey, FALSE)
    ELSE Disturbed

\* The system derives keys below the app's own path only (Makefile:50).  What
\* overwritten memory says may be such a path or not.
MayDerive(key) == key \in Keys \cup {Junk}
MayRefuse(key) == key \notin Keys

\* read_bip32_path leaves a path behind when it throws, not one of the app's.
ReadKey(path) == IF path = Malformed THEN NoKey ELSE path

-----------------------------------------------------------------------------
\* app_main: the first start writes the settings, a later one keeps them.
Defaults ==
    [initialized |-> TRUE, address_type |-> "MAINNET", sign_hash_type |-> "OFF"]
Uninitialized ==
    [initialized |-> FALSE, address_type |-> "MAINNET", sign_hash_type |-> "OFF"]
app_main(stored) == IF stored.initialized THEN stored ELSE Defaults

Init ==
    /\ build \in {"BAGL", "NBGL"}
    /\ N_data = app_main(Uninitialized)
    /\ u = Zeroed
    /\ screen = Idle
    /\ response = Ok
    /\ session = NothingTold

\* The user quits the app or the device loses power, and the app is opened again.
Restart ==
    /\ N_data' = app_main(N_data)
    /\ clear_data
    /\ screen' = Idle
    /\ Respond(Ok)
    /\ session' = NothingTold

\* The menu with the settings (switch_contract_data, which only the callbacks of
\* the parser look at, is in SignTransaction).
Toggle(value, on, off) == IF value = on THEN off ELSE on

SwitchSetting ==
    /\ screen = Idle
    /\ \/ N_data' = [N_data EXCEPT !.address_type = Toggle(@, "MAINNET", "TESTNET")]
       \/ N_data' = [N_data EXCEPT !.sign_hash_type = Toggle(@, "ON", "OFF")]
    /\ UNCHANGED <<u, screen, response, session>>

\* main_loop: what is not handed to a handler, handle_apdu_error included.
Undispatched ==
    /\ Ready
    /\ \E status \in {"WRONG_DATA_LENGTH", "INVALID_CLA", "INVALID_INS"} : Throw(status)
    /\ UNCHANGED <<N_data, u, session>>

\* handle_apdu_version, handle_apdu_git and handle_apdu_get_wallet_id.
Information ==
    /\ Ready
    /\ Reply(Ok)
    /\ UNCHANGED <<N_data, u, session>>

\* A packet of more than MAX_APDU_SIZE bytes, for any of the signing commands.
TooLong ==
    /\ Ready
    /\ Throw("WRONG_LENGTH_FOR_INS")
    /\ UNCHANGED <<N_data, u, session>>

-----------------------------------------------------------------------------
\* Public keys.

PublicKeyKinds == {"Public Key", "Extended Public Key", "Account"}

PublicKey(k) == [gives |-> "public key", key |-> k]
PublicKeyPrompt(kind, k) ==
    [kind |-> kind, key |-> k, network |-> N_data.address_type,
     ok |-> "pubkey_ok", cxl |-> "delay_reject"]

\* handle_apdu_get_public_key, with the address on the screen if it is to be verified.
GetPublicKey(p1, path) ==
    /\ Ready
    /\ IF p1 = "other"
       THEN Throw("WRONG_PARAM") /\ UNCHANGED <<u, session>>
       ELSE /\ session' = Disturbed
            /\ IF MayRefuse(path)
               THEN Write("pubkey", Junk) /\ Throw("PATH")
               ELSE /\ Write("pubkey", path)
                    /\ IF p1 = "verify"
                       THEN \E kind \in PublicKeyKinds \ {"Account"} :
                                ui_prompt(PublicKeyPrompt(kind, path))
                       ELSE Reply(PublicKey(path))
    /\ UNCHANGED N_data

\* handle_apdu_account_import: the path is made from an index below 2^31.
AccountImport(valid, path) ==
    /\ Ready
    /\ IF valid
       THEN /\ Write("pubkey", path)
            /\ ui_prompt(PublicKeyPrompt("Account", path))
            /\ session' = Disturbed
       ELSE Throw("WRONG_PARAM") /\ UNCHANGED <<u, session>>
    /\ UNCHANGED N_data

-----------------------------------------------------------------------------
\* Transactions: handle_apdu around the parser of SignTransaction.

\* What MolReader_AnnotatedTransaction_parse may do with a packet: its callbacks
\* reject a transaction, for good or for the user to be told nothing of it, and
\* the parse goes on.
Parsed(s, rv, unsafe, hard_reject) ==
    [parse |-> IF rv = "COMPLETE" THEN "complete" ELSE s.parse,
     unsafe |-> s.unsafe \/ unsafe, hard_reject |-> hard_reject, is_valid |-> s.is_valid,
     tag |-> IF rv = "COMPLETE" THEN "presentable" ELSE s.tag]

Parse(s) ==
    IF s.parse = "complete" THEN {<<"COMPLETE", s>>}
    ELSE {<<"REJECT", s>>}
         \cup {<<rv, Parsed(s, rv, unsafe, hard_reject)>> :
                  rv \in {"INCOMPLETE", "COMPLETE"}, unsafe \in BOOLEAN, hard_reject \in BOOLEAN}

TransactionPrompt == [kind |-> "Transaction", ok |-> "sign_ok", cxl |-> "sign_reject"]

\* Only a transaction with a tag of its own has prompts.
sign_complete(s, told) ==
    IF s.tag = "presentable"
    THEN ui_prompt(TransactionPrompt) /\ session' = told
    ELSE Throw("REJECT") /\ session' = [told EXCEPT !.refused = TRUE]

\* The stream ends too early, too late or not at all: nothing makes up for it.
HardReject_Forgotten(s) == s
HardReject(s) == [s EXCEPT !.hard_reject = TRUE]

Refused(s, told, status) ==
    /\ Write("sign", s)
    /\ Throw(status)
    /\ session' = [told EXCEPT !.refused = TRUE]

SignPacket(s0, told, last, secure_only) ==
    IF s0.hard_reject
    THEN Refused(s0, told, "PARSE_ERROR")
    ELSE \E result \in Parse(s0) :
            LET rv == result[1]
                s == result[2]
                valid == [s EXCEPT !.tag = IF s.unsafe THEN "NONE" ELSE @, !.is_valid = TRUE]
            IN IF rv # (IF last THEN "COMPLETE" ELSE "INCOMPLETE") \/ (last /\ s.hard_reject)
               THEN Refused(HardReject(s), told, "PARSE_ERROR")
               ELSE IF ~last
               THEN Write("sign", s) /\ Reply(Ok) /\ session' = told
               ELSE IF s.unsafe /\ secure_only
               THEN Refused(s, told, "SECURITY")
               ELSE Write("sign", valid) /\ sign_complete(valid, told)

Sign(p1, last, secure_only) ==
    /\ Ready
    /\ \/ p1 = "FIRST" /\ SignPacket(ZeroSign, Told("sign", NoKey, FALSE), last, secure_only)
       \/ p1 = "NEXT" /\ \E s \in sign : SignPacket(s, Continued("sign"), last, secure_only)
       \/ p1 = "other" /\ \E s \in sign :
            /\ Write("sign", s)
            /\ IF last /\ s.is_valid
               THEN sign_complete(s, Continued("sign"))
               ELSE Reply(Ok) /\ session' = Continued("sign")
    /\ UNCHANGED N_data

-----------------------------------------------------------------------------
\* Messages.

MessagePrompt(m) ==
    [kind |-> "Message", text |-> m.display, as_hex |-> m.display_as_hex,
     ok |-> "sign_message_ok", cxl |-> "sign_reject"]

\* The first packet gives the path.  A packet without one is turned down after
\* the state has been cleared.
SignMessageFirst(empty, as_hex, path) ==
    LET m == [key |-> ReadKey(path), packet_index |-> 0, display_as_hex |-> as_hex,
              display |-> Blank, hash_state |-> <<>>, final_hash |-> <<>>]
    IN /\ Ready
       /\ IF empty
          THEN Write("sign_msg", ZeroMessage) /\ Throw("REJECT") /\ session' = Told("sign_msg", NoKey, FALSE)
          ELSE /\ Write("sign_msg", m)
               /\ IF path = Malformed THEN Throw("PATH") ELSE Reply(Ok)
               /\ session' = Told("sign_msg", m.key, as_hex)
       /\ UNCHANGED N_data

\* packet_index is one byte.
IndexFull_Unguarded(i) == FALSE
IndexFull(i) == i >= MaxIndex
NextIndex(i) == (i + 1) % (MaxIndex + 1)

\* The later packets are the message, the first of them is the one shown, and
\* the last one leaves the hash state spent.  A first one without the magic bytes
\* is refused, but has been counted: none after it is taken for the first.
Indexed(m) == [m EXCEPT !.packet_index = NextIndex(@)]
Shown(m, p) == [Indexed(m) EXCEPT !.display = IF Indexed(m).packet_index = 1 THEN p ELSE @]
Hashed(m, p) == [Shown(m, p) EXCEPT !.hash_state = Append(@, p)]
Final(m, p) == [Hashed(m, p) EXCEPT !.final_hash = Hashed(m, p).hash_state]
Finished(m, p) == [Final(m, p) EXCEPT !.hash_state = <<Junk>>]

LacksMagic_Unchecked(m, p) == FALSE
LacksMagic(m, p) == Indexed(m).packet_index = 1 /\ p \notin WithMagic

SignMessageNext(p, last) ==
    /\ Ready
    /\ \E m \in sign_msg :
         \/ /\ IndexFull(m.packet_index)
            /\ Throw("PARSE_ERROR")
            /\ UNCHANGED <<u, session>>
         \/ /\ ~IndexFull(m.packet_index)
            /\ LacksMagic(m, p)
            /\ Write("sign_msg", Indexed(m))
            /\ Throw("PARSE_ERROR")
            /\ session' = [Continued("sign_msg") EXCEPT !.refused = TRUE]
         \/ /\ ~IndexFull(m.packet_index)
            /\ ~LacksMagic(m, p)
            /\ IF last
               THEN Write("sign_msg", Finished(m, p)) /\ ui_prompt(MessagePrompt(Finished(m, p)))
               ELSE Write("sign_msg", Hashed(m, p)) /\ Reply(Ok)
            /\ session' = [Continued("sign_msg") EXCEPT !.packets = Append(@, p)]
    /\ UNCHANGED N_data

SignMessageOther ==
    /\ Ready
    /\ Throw("WRONG_PARAM")
    /\ UNCHANGED <<N_data, u, session>>

-----------------------------------------------------------------------------
\* Hashes of messages, if the settings allow it, packet by packet.

SignHashAllowed_AtFirst(p1) == N_data.sign_hash_type = "ON" \/ p1 # "FIRST"
SignHashAllowed(p1) == N_data.sign_hash_type = "ON"

MessageHashPrompt(h) ==
    [kind |-> "Message Hash", text |-> h.hash_to_sign,
     ok |-> "sign_message_hash_ok", cxl |-> "sign_reject"]

SignMessageHashFirst(path) ==
    LET h == [key |-> ReadKey(path), hash_to_sign |-> Blank]
    IN /\ Ready
       /\ IF ~SignHashAllowed("FIRST")
          THEN Throw("REJECT") /\ UNCHANGED <<u, session>>
          ELSE /\ Write("sign_msg_hash", h)
               /\ IF path = Malformed THEN Throw("PATH") ELSE Reply(Ok)
               /\ session' = Told("sign_msg_hash", h.key, FALSE)
       /\ UNCHANGED N_data

\* Anything longer than 32 bytes does not fit the screen.
SignMessageHashLast(too_long, hash) ==
    /\ Ready
    /\ IF ~SignHashAllowed("LAST_MARKER")
       THEN Throw("REJECT") /\ UNCHANGED <<u, session>>
       ELSE IF too_long
       THEN Throw("PARSE_ERROR") /\ UNCHANGED <<u, session>>
       ELSE \E h \in sign_msg_hash :
              LET given == [h EXCEPT !.hash_to_sign = hash]
              IN /\ Write("sign_msg_hash", given)
                 /\ ui_prompt(MessageHashPrompt(given))
                 /\ session' = [Continued("sign_msg_hash") EXCEPT !.packets = <<hash>>]
    /\ UNCHANGED N_data

SignMessageHashOther ==
    /\ Ready
    /\ Throw(IF SignHashAllowed("other") THEN "WRONG_PARAM" ELSE "REJECT")
    /\ UNCHANGED <<N_data, u, session>>

-----------------------------------------------------------------------------
\* The answers.  prompt_response goes back to the menu and calls the callback,
\* reviewChoice calls it and goes back when it has returned, so that after one
\* that throws the prompt is where it was.

AfterThrow_PromptStays == UNCHANGED screen
AfterThrow == IF build = "BAGL" THEN screen' = Idle ELSE UNCHANGED screen

\* pubkey_ok, ext_pubkey_ok and account_import_ok.
pubkey_ok ==
    /\ screen.ok = "pubkey_ok"
    /\ \E k \in pubkey : Respond(PublicKey(k))
    /\ screen' = Idle
    /\ UNCHANGED <<u, session>>

sign_ok ==
    /\ screen.ok = "sign_ok"
    /\ clear_data
    /\ Respond(TransactionSignature)
    /\ screen' = Idle
    /\ session' = NothingTold

sign_message_ok ==
    /\ screen.ok = "sign_message_ok"
    /\ \E m \in sign_msg :
         \/ /\ MayDerive(m.key)
            /\ Write("sign_msg", ZeroMessage)
            /\ Respond(Signature("message signature", m.key, m.final_hash))
            /\ session' = Told("sign_msg", NoKey, FALSE)
            /\ screen' = Idle
         \/ /\ MayRefuse(m.key)
            /\ Respond(Error("DERIVATION"))
            /\ AfterThrow
            /\ UNCHANGED <<u, session>>

sign_message_hash_ok ==
    /\ screen.ok = "sign_message_hash_ok"
    /\ \E h \in sign_msg_hash :
         \/ /\ MayDerive(h.key)
            /\ Write("sign_msg_hash", ZeroMessageHash)
            /\ Respond(Signature("hash signature", h.key, h.hash_to_sign))
            /\ session' = Told("sign_msg_hash", NoKey, FALSE)
            /\ screen' = Idle
         \/ /\ MayRefuse(h.key)
            /\ Respond(Error("DERIVATION"))
            /\ AfterThrow
            /\ UNCHANGED <<u, session>>

Approve ==
    /\ screen # Idle
    /\ pubkey_ok \/ sign_ok \/ sign_message_ok \/ sign_message_hash_ok
    /\ UNCHANGED N_data

\* delay_reject answers; sign_reject clears the state of all signing before it.
Reject ==
    /\ screen # Idle
    /\ screen' = Idle
    /\ Respond(Error("REJECT"))
    /\ IF screen.cxl = "sign_reject"
       THEN clear_data /\ session' = NothingTold
       ELSE UNCHANGED <<u, session>>
    /\ UNCHANGED N_data

-----------------------------------------------------------------------------
Command ==
    \/ Undispatched \/ Information \/ TooLong
    \/ \E p1 \in {"no prompt", "verify", "other"}, path \in Paths \cup {Malformed} :
            GetPublicKey(p1, path)
    \/ \E valid \in BOOLEAN, path \in Keys : AccountImport(valid, path)
    \/ \E p1 \in {"FIRST", "NEXT", "other"}, last, secure_only \in BOOLEAN :
            Sign(p1, last, secure_only)
    \/ \E empty, as_hex \in BOOLEAN, path \in Paths \cup {Malformed} :
            SignMessageFirst(empty, as_hex, path)
    \/ \E p \in Packets, last \in BOOLEAN : SignMessageNext(p, last)
    \/ SignMessageOther
    \/ \E path \in Paths \cup {Malformed} : SignMessageHashFirst(path)
    \/ \E too_long \in BOOLEAN, hash \in Hashes : SignMessageHashLast(too_long, hash)
    \/ SignMessageHashOther

User == Approve \/ Reject \/ SwitchSetting \/ Restart

Next == (Command \/ User) /\ UNCHANGED build

Spec == Init /\ [][Next]_vars

-----------------------------------------------------------------------------
\* Properties.

Settings ==
    [initialized : {TRUE}, address_type : {"MAINNET", "TESTNET"},
     sign_hash_type : {"ON", "OFF"}]

Messages ==
    [key : Paths \cup {NoKey, Junk}, packet_index : 0 .. MaxIndex, display_as_hex : BOOLEAN,
     display : Packets \cup {Blank, Junk}, hash_state : Seq(Packets \cup {Junk}),
     final_hash : Seq(Packets \cup {Junk})]

MessageHashes == [key : Paths \cup {NoKey, Junk}, hash_to_sign : Hashes \cup {Blank, Junk}]

Unions ==
    {Zeroed}
    \cup [member : {"pubkey"}, value : Keys \cup {Junk}]
    \cup [member : {"sign"}, value : Signs]
    \cup [member : {"sign_msg"}, value : Messages]
    \cup [member : {"sign_msg_hash"}, value : MessageHashes]

SessionKinds == {"cleared", "disturbed", "sign", "sign_msg", "sign_msg_hash"}
Sessions ==
    [kind : SessionKinds, key : Paths \cup {NoKey}, packets : Seq(Packets \cup Hashes),
     as_hex : BOOLEAN, refused : BOOLEAN]

PublicKeyPrompts ==
    [kind : PublicKeyKinds, key : Keys, network : {"MAINNET", "TESTNET"}, ok : {"pubkey_ok"}, cxl : {"delay_reject"}]
MessagePrompts ==
    [kind : {"Message"}, text : Packets \cup {Blank, Junk}, as_hex : BOOLEAN,
     ok : {"sign_message_ok"}, cxl : {"sign_reject"}]
MessageHashPrompts ==
    [kind : {"Message Hash"}, text : Hashes, ok : {"sign_message_hash_ok"}, cxl : {"sign_reject"}]
Screens == {Idle, TransactionPrompt} \cup PublicKeyPrompts \cup MessagePrompts \cup MessageHashPrompts

Answered ==
    /\ ~Ready => screen # Idle
    /\ Ready /\ screen # Idle => build = "NBGL" /\ screen \in MessagePrompts \cup MessageHashPrompts

\* Every variable keeps its type.  A command without an answer has its prompt on
\* the screen, and a prompt is only there for such a command: no handler answers
\* and prompts, and no callback leaves its prompt behind, but that of a message
\* or a hash on a touch screen, when it throws.
TypeOK ==
    /\ build \in {"BAGL", "NBGL"}
    /\ N_data \in Settings
    /\ u \in Unions
    /\ screen \in Screens
    /\ session \in Sessions
    /\ Answered

\* A signature that answers a command for a message, in a session that no other
\* command has disturbed, is by the key of its P1_FIRST over exactly the packets
\* accepted since, in the form asked for; the screen showed the first of them,
\* which begins with the magic bytes: not a later packet, however many there are,
\* nor anything of an earlier session.  Once a first packet has been refused for
\* its magic bytes (apdu_sign.c:1190) nothing is shown of what follows, and none
\* of it needs them: there the text is blank, always.
MessageSignatureHonest ==
    [][~Ready /\ response'.gives = "message signature" /\ session.kind = "sign_msg" =>
          /\ session.key \in Keys
          /\ response'.key = session.key
          /\ response'.data = session.packets
          /\ screen.as_hex = session.as_hex
          /\ IF session.refused
             THEN screen.text = Blank
             ELSE screen.text = Head(session.packets) /\ screen.text \in WithMagic]_vars

\* A hash that answers a command is signed only while the user allows it,
\* although the setting may be switched between the two packets, it is the hash
\* on the screen, and in a session that no other command has disturbed it is
\* signed by the key of its P1_FIRST.
HashSignatureHonest ==
    [][~Ready /\ response'.gives = "hash signature" =>
          /\ N_data.sign_hash_type = "ON"
          /\ screen.text = response'.data
          /\ session.kind = "sign_msg_hash" =>
                session.key \in Keys /\ response'.key = session.key]_vars

\* Once a packet of a transaction has been refused, no later packet brings the
\* transaction to the screen; and what comes to the screen has been parsed to
\* its end without a callback rejecting it.
ReviewOfAcceptedOnly ==
    screen.kind = "Transaction" /\ session.kind = "sign" =>
        /\ ~session.refused
        /\ \A s \in sign : s.parse = "complete" /\ ~s.unsafe /\ ~s.hard_reject
=============================================================================
