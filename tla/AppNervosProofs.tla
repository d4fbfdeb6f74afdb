--------------------------- MODULE AppNervosProofs ---------------------------
(***************************************************************************)
(* Proofs about AppNervos: its type invariant, and that a signature of a    *)
(* message or of a hash is the one its session asked for and showed,        *)
(* whatever commands, answers and switches come between.                    *)
(***************************************************************************)
EXTENDS AppNervos, SequenceTheorems, TLAPS

-----------------------------------------------------------------------------
\* What the handlers are built from.

\* A member is read as something of its type, also when another one was written.
LEMMA ReadTyped ==
    ASSUME u \in Unions
    PROVE  /\ pubkey \subseteq Keys \cup {NoKey, Junk}
           /\ sign \subseteq Signs
           /\ sign_msg \subseteq Messages
           /\ sign_msg_hash \subseteq MessageHashes
<1>1. CASE u = Zeroed
  <2>1. ZeroMessage \in Messages
    BY IndexAssumption DEF ZeroMessage, Messages
  <2>2. ZeroSign \in Signs
    BY DEF ZeroSign, Signs
  <2>3. ZeroMessageHash \in MessageHashes
    BY DEF ZeroMessageHash, MessageHashes
  <2> QED
    BY <1>1, <2>1, <2>2, <2>3 DEF Zeroed, Read, pubkey, sign, sign_msg, sign_msg_hash
<1>2. JunkMessages \subseteq Messages
  <2>1. <<Junk>> \in Seq(Packets \cup {Junk})
    OBVIOUS
  <2> QED
    BY <2>1 DEF JunkMessages, Messages
<1>3. JunkMessageHashes \subseteq MessageHashes
  BY DEF JunkMessageHashes, MessageHashes
<1> QED
  BY <1>1, <1>2, <1>3 DEF Unions, Read, pubkey, sign, sign_msg, sign_msg_hash

\* Writing a member leaves the union one of its members.
LEMMA WriteTyped ==
    /\ \A k \in Keys \cup {Junk} : Write("pubkey", k) => u' \in Unions
    /\ \A s \in Signs : Write("sign", s) => u' \in Unions
    /\ \A m \in Messages : Write("sign_msg", m) => u' \in Unions
    /\ \A h \in MessageHashes : Write("sign_msg_hash", h) => u' \in Unions
    /\ clear_data => u' \in Unions
BY DEF Write, Unions, clear_data

\* What the responses give.
LEMMA Gives ==
    /\ Ok.gives = "success"
    /\ TransactionSignature.gives = "transaction signature"
    /\ NoResponse.gives = "pending"
    /\ \A status : Error(status).gives = "error"
    /\ \A k : PublicKey(k).gives = "public key"
    /\ \A kind, key, data :
          /\ Signature(kind, key, data).gives = kind
          /\ Signature(kind, key, data).key = key
          /\ Signature(kind, key, data).data = data
BY DEF Ok, TransactionSignature, NoResponse, Error, PublicKey, Signature

\* A response leaves the screen as it is, a prompt leaves the response to the user.
LEMMA Replied ==
    /\ \A status : Throw(status) => Ready' /\ UNCHANGED screen
    /\ Reply(Ok) => Ready' /\ UNCHANGED screen
    /\ \A k : Reply(PublicKey(k)) => Ready' /\ UNCHANGED screen
    /\ \A p : ui_prompt(p) => ~Ready' /\ screen' = p
<1>1. \A r : r.gives # "pending" => (Reply(r) => Ready' /\ UNCHANGED screen)
  BY Gives, Zenon DEF Ready, Reply, Respond
<1>2. \A p : ui_prompt(p) => ~Ready' /\ screen' = p
  BY DEF Ready, Respond, ui_prompt
<1> QED
  BY <1>1, <1>2, Gives DEF Throw

\* An answer brings no prompt to the screen, a prompt no answer to the host.
LEMMA Answers ==
    ASSUME TypeOK, Ready, UNCHANGED build
    PROVE  /\ \A status : Throw(status) => screen' \in Screens /\ Answered'
           /\ Reply(Ok) => screen' \in Screens /\ Answered'
           /\ \A k : Reply(PublicKey(k)) => screen' \in Screens /\ Answered'
           /\ \A p \in Screens \ {Idle} : ui_prompt(p) => screen' \in Screens /\ Answered'
<1>1. Ready' /\ UNCHANGED screen => screen' \in Screens /\ Answered'
  BY DEF TypeOK, Answered
<1>2. \A p \in Screens \ {Idle} : ui_prompt(p) => screen' \in Screens /\ Answered'
  BY Replied, Zenon DEF Answered
<1> QED
  BY <1>1, <1>2, Replied, Zenon

\* What a session goes on with is a session.
LEMMA SessionsTyped ==
    /\ NothingTold \in Sessions /\ Disturbed \in Sessions
    /\ \A kind \in SessionKinds, key \in Paths \cup {NoKey}, as_hex \in BOOLEAN :
            Told(kind, key, as_hex) \in Sessions
    /\ session \in Sessions => \A kind \in SessionKinds : Continued(kind) \in Sessions
BY DEF NothingTold, Disturbed, Told, Sessions, SessionKinds, Continued

-----------------------------------------------------------------------------
\* Type correctness, one lemma per command.

\* The app starts with its variables in their types.
LEMMA TypeInit == Init => TypeOK
<1> SUFFICES ASSUME Init PROVE TypeOK
  OBVIOUS
<1>1. N_data \in Settings
  BY DEF Init, app_main, Uninitialized, Defaults, Settings
<1>2. u \in Unions
  BY DEF Init, Unions
<1>3. session \in Sessions
  BY SessionsTyped DEF Init
<1>4. Answered /\ screen \in Screens
  BY DEF Init, Answered, Ready, Ok, NoResponse, Screens
<1> QED
  BY <1>1, <1>2, <1>3, <1>4 DEF TypeOK, Init

\* The settings keep their type when the app is opened again or one is switched.
LEMMA TypeMenu == TypeOK /\ (Restart \/ SwitchSetting) /\ UNCHANGED build => TypeOK'
<1>1. ASSUME TypeOK, Restart, UNCHANGED build PROVE TypeOK'
  <2>1. N_data' \in Settings
    BY <1>1 DEF TypeOK, Restart, app_main, Defaults, Settings
  <2>2. u' \in Unions /\ session' \in Sessions
    BY <1>1, WriteTyped, SessionsTyped DEF Restart
  <2>3. Answered' /\ screen' \in Screens
    BY <1>1 DEF Restart, Answered, Ready, Respond, Ok, NoResponse, Screens
  <2> QED
    BY <1>1, <2>1, <2>2, <2>3 DEF TypeOK
<1>2. ASSUME TypeOK, SwitchSetting, UNCHANGED build PROVE TypeOK'
  <2>1. N_data' \in Settings
    BY <1>2 DEF TypeOK, SwitchSetting, Toggle, Settings
  <2> QED
    BY <1>2, <2>1 DEF TypeOK, SwitchSetting, Answered, Ready
<1> QED
  BY <1>1, <1>2

\* The commands that change nothing are answered.
LEMMA TypeInformation ==
    ASSUME TypeOK, UNCHANGED build,
           Undispatched \/ Information \/ TooLong \/ SignMessageOther \/ SignMessageHashOther
    PROVE  TypeOK'
<1>1. Ready /\ UNCHANGED <<N_data, u, session>> /\ ((\E status : Throw(status)) \/ Reply(Ok))
  BY DEF Undispatched, Information, TooLong, SignMessageOther, SignMessageHashOther
<1>2. screen' \in Screens /\ Answered'
  BY <1>1, Answers
<1> QED
  BY <1>1, <1>2 DEF TypeOK

\* A public key is asked for with a path in u.pubkey, and answered or prompted.
LEMMA TypeGetPublicKey ==
    ASSUME TypeOK, UNCHANGED build,
           NEW p1 \in {"no prompt", "verify", "other"}, NEW path \in Paths \cup {Malformed},
           GetPublicKey(p1, path)
    PROVE  TypeOK'
<1>1. CASE p1 = "other"
  BY <1>1, Answers DEF GetPublicKey, TypeOK
<1>2. CASE p1 # "other"
  <2>1. session' \in Sessions
    BY <1>2, SessionsTyped DEF GetPublicKey
  <2>2. u' \in Unions
    BY <1>2, WriteTyped DEF GetPublicKey, MayRefuse
  <2>3. ~MayRefuse(path) => \A kind \in PublicKeyKinds : PublicKeyPrompt(kind, path) \in Screens \ {Idle}
    BY DEF MayRefuse, PublicKeyKinds, PublicKeyPrompt, PublicKeyPrompts, Screens, Idle, TypeOK, Settings
  <2>4. screen' \in Screens /\ Answered'
    BY <1>2, <2>3, Answers DEF GetPublicKey
  <2> QED
    BY <2>1, <2>2, <2>4 DEF TypeOK, GetPublicKey
<1> QED
  BY <1>1, <1>2

\* An account is imported after a prompt, whatever its index.
LEMMA TypeAccountImport ==
    ASSUME TypeOK, UNCHANGED build, NEW valid \in BOOLEAN, NEW path \in Keys, AccountImport(valid, path)
    PROVE  TypeOK'
<1>1. PublicKeyPrompt("Account", path) \in Screens \ {Idle}
  BY DEF PublicKeyKinds, PublicKeyPrompt, PublicKeyPrompts, Screens, Idle, TypeOK, Settings
<1>2. u' \in Unions /\ session' \in Sessions
  BY WriteTyped, SessionsTyped DEF AccountImport, TypeOK
<1>3. screen' \in Screens /\ Answered'
  BY <1>1, Answers DEF AccountImport
<1> QED
  BY <1>2, <1>3 DEF TypeOK, AccountImport

\* The black box keeps the type of the state it parses into.
LEMMA ParseTyped ==
    ASSUME NEW s \in Signs, NEW result \in Parse(s)
    PROVE  result[2] \in Signs
<1>1. \A rv \in {"INCOMPLETE", "COMPLETE"}, unsafe \in BOOLEAN, hard_reject \in BOOLEAN :
          Parsed(s, rv, unsafe, hard_reject) \in Signs
  BY DEF Parsed, Signs
<1> HIDE DEF Parsed
<1>2. CASE result \in {<<"COMPLETE", s>>, <<"REJECT", s>>}
  BY <1>2
<1>3. CASE result \notin {<<"COMPLETE", s>>, <<"REJECT", s>>}
  <2>1. \E rv \in {"INCOMPLETE", "COMPLETE"}, unsafe \in BOOLEAN, hard_reject \in BOOLEAN :
            result = <<rv, Parsed(s, rv, unsafe, hard_reject)>>
    BY <1>3 DEF Parse
  <2> QED
    BY <1>1, <2>1
<1> QED
  BY <1>2, <1>3

\* A session with a refusal or with other packets is a session.
LEMMA ToldTyped ==
    ASSUME NEW told \in Sessions
    PROVE  /\ [told EXCEPT !.refused = TRUE] \in Sessions
           /\ \A packets \in Seq(Packets \cup Hashes) :
                 [told EXCEPT !.packets = packets] \in Sessions
BY DEF Sessions

\* A packet of a transaction is answered, or the transaction is prompted.
LEMMA TypeSignPacket ==
    ASSUME TypeOK, UNCHANGED build, Ready, NEW s0 \in Signs, NEW told \in Sessions,
           NEW last \in BOOLEAN, NEW secure_only \in BOOLEAN,
           SignPacket(s0, told, last, secure_only)
    PROVE  u' \in Unions /\ session' \in Sessions /\ screen' \in Screens /\ Answered'
<1>1. ASSUME NEW s \in Signs, NEW status, Refused(s, told, status)
      PROVE  u' \in Unions /\ session' \in Sessions /\ screen' \in Screens /\ Answered'
  BY <1>1, WriteTyped, ToldTyped, Answers DEF Refused
<1>2. ASSUME NEW s \in Signs, Write("sign", s), sign_complete(s, told)
      PROVE  u' \in Unions /\ session' \in Sessions /\ screen' \in Screens /\ Answered'
  <2>1. TransactionPrompt \in Screens \ {Idle}
    BY DEF TransactionPrompt, Screens, Idle
  <2> QED
    BY <1>2, <2>1, WriteTyped, ToldTyped, Answers DEF sign_complete
<1>3. CASE s0.hard_reject
  BY <1>1, <1>3 DEF SignPacket
<1>4. CASE ~s0.hard_reject
  <2>1. PICK result \in Parse(s0) :
            LET rv == result[1]
                s == result[2]
                valid == [s EXCEPT !.tag = IF s.unsafe THEN "NONE" ELSE @, !.is_valid = TRUE]
            IN IF rv # (IF last THEN "COMPLETE" ELSE "INCOMPLETE") \/ (last /\ s.hard_reject)
               THEN Refused(HardReject(s), told, "PARSE_ERROR")
               ELSE IF ~last
               THEN Write("sign", s) /\ Reply(Ok) /\ session' = told
               ELSE IF s.unsafe /\ secure_only
               THEN Refused(s, told, "SECURITY")
               ELSE Write("sign", valid) /\ sign_complete(valid, told)
    BY <1>4 DEF SignPacket
  <2> DEFINE s == result[2]
             valid == [s EXCEPT !.tag = IF s.unsafe THEN "NONE" ELSE @, !.is_valid = TRUE]
  <2>2. s \in Signs
    BY ParseTyped
  <2>3. HardReject(s) \in Signs /\ valid \in Signs
    BY <2>2 DEF HardReject, Signs
  <2>4. Write("sign", s) /\ Reply(Ok) /\ session' = told
            => u' \in Unions /\ session' \in Sessions /\ screen' \in Screens /\ Answered'
    BY <2>2, WriteTyped, Answers
  <2> QED
    BY <1>1, <1>2, <2>1, <2>2, <2>3, <2>4
<1> QED
  BY <1>3, <1>4

\* A packet of a transaction keeps the types, whichever p1 it comes with.
LEMMA TypeSign ==
    ASSUME TypeOK, UNCHANGED build, NEW p1 \in {"FIRST", "NEXT", "other"},
           NEW last \in BOOLEAN, NEW secure_only \in BOOLEAN,
           Sign(p1, last, secure_only)
    PROVE  TypeOK'
<1>1. Ready /\ UNCHANGED N_data
  BY DEF Sign
<1>2. ZeroSign \in Signs /\ Told("sign", NoKey, FALSE) \in Sessions /\ Continued("sign") \in Sessions
  BY SessionsTyped DEF TypeOK, ZeroSign, Signs, SessionKinds
<1>3. \A s \in sign : s \in Signs
  BY ReadTyped DEF TypeOK
<1>4. CASE p1 \in {"FIRST", "NEXT"}
  <2>1. \E s \in Signs, told \in Sessions : SignPacket(s, told, last, secure_only)
    BY <1>2, <1>3, <1>4 DEF Sign
  <2> QED
    BY <1>1, <2>1, TypeSignPacket DEF TypeOK
<1>5. CASE p1 = "other"
  <2>1. PICK s \in sign :
            /\ Write("sign", s)
            /\ IF last /\ s.is_valid
               THEN sign_complete(s, Continued("sign"))
               ELSE Reply(Ok) /\ session' = Continued("sign")
    BY <1>5 DEF Sign
  <2>2. TransactionPrompt \in Screens \ {Idle}
    BY DEF TransactionPrompt, Screens, Idle
  <2>3. u' \in Unions
    BY <1>3, <2>1, WriteTyped
  <2>4. session' \in Sessions /\ screen' \in Screens /\ Answered'
    BY <1>1, <1>2, <2>1, <2>2, ToldTyped, Answers DEF sign_complete
  <2> QED
    BY <1>1, <2>3, <2>4 DEF TypeOK
<1> QED
  BY <1>4, <1>5

\* The first packet of a message leaves its path, or none, and is answered.
LEMMA TypeSignMessageFirst ==
    ASSUME TypeOK, UNCHANGED build, NEW empty \in BOOLEAN, NEW as_hex \in BOOLEAN,
           NEW path \in Paths \cup {Malformed},
           SignMessageFirst(empty, as_hex, path)
    PROVE  TypeOK'
<1> DEFINE m == [key |-> ReadKey(path), packet_index |-> 0, display_as_hex |-> as_hex,
                 display |-> Blank, hash_state |-> <<>>, final_hash |-> <<>>]
<1>1. ReadKey(path) \in Paths \cup {NoKey}
  BY DEF ReadKey
<1>2. m \in Messages /\ ZeroMessage \in Messages /\ m.key = ReadKey(path)
  BY <1>1, IndexAssumption DEF Messages, ZeroMessage
<1>3. /\ Ready
      /\ UNCHANGED N_data
      /\ Write("sign_msg", ZeroMessage) \/ Write("sign_msg", m)
      /\ (\E status : Throw(status)) \/ Reply(Ok)
      /\ session' \in {Told("sign_msg", NoKey, FALSE), Told("sign_msg", m.key, as_hex)}
  BY DEF SignMessageFirst
<1> HIDE DEF m
<1>4. u' \in Unions
  BY <1>2, <1>3, WriteTyped
<1>5. session' \in Sessions
  BY <1>1, <1>2, <1>3, SessionsTyped DEF SessionKinds
<1>6. screen' \in Screens /\ Answered'
  BY <1>3, Answers
<1> QED
  BY <1>3, <1>4, <1>5, <1>6 DEF TypeOK

\* The fields of the message after a later packet.
LEMMA MessageFields ==
    ASSUME NEW m \in Messages, NEW p \in Packets
    PROVE  /\ Indexed(m) \in Messages /\ Hashed(m, p) \in Messages /\ Finished(m, p) \in Messages
           /\ \A n \in {Indexed(m), Hashed(m, p), Finished(m, p)} :
                 /\ n.key = m.key
                 /\ n.display_as_hex = m.display_as_hex
                 /\ n.packet_index = NextIndex(m.packet_index)
           /\ Indexed(m).display = m.display
           /\ Indexed(m).hash_state = m.hash_state
           /\ \A n \in {Hashed(m, p), Finished(m, p)} :
                 n.display = IF NextIndex(m.packet_index) = 1 THEN p ELSE m.display
           /\ Hashed(m, p).hash_state = Append(m.hash_state, p)
           /\ Finished(m, p).final_hash = Append(m.hash_state, p)
<1>1. NextIndex(m.packet_index) \in 0 .. MaxIndex
  BY IndexAssumption DEF NextIndex, Messages
<1>2. Append(m.hash_state, p) \in Seq(Packets \cup {Junk}) /\ <<Junk>> \in Seq(Packets \cup {Junk})
  BY DEF Messages
<1> HIDE DEF NextIndex
<1>3. /\ Indexed(m) \in Messages
      /\ Indexed(m) = [key |-> m.key, packet_index |-> NextIndex(m.packet_index),
                       display_as_hex |-> m.display_as_hex, display |-> m.display,
                       hash_state |-> m.hash_state, final_hash |-> m.final_hash]
  BY <1>1 DEF Indexed, Messages
<1> DEFINE display == IF NextIndex(m.packet_index) = 1 THEN p ELSE m.display
<1>4. Shown(m, p) = [key |-> m.key, packet_index |-> NextIndex(m.packet_index),
                     display_as_hex |-> m.display_as_hex, display |-> display,
                     hash_state |-> m.hash_state, final_hash |-> m.final_hash]
  BY <1>3 DEF Shown
<1> DEFINE spent == <<Junk>>
           hash == Append(m.hash_state, p)
<1>5. Hashed(m, p) = [key |-> m.key, packet_index |-> NextIndex(m.packet_index),
                     display_as_hex |-> m.display_as_hex, display |-> display,
                     hash_state |-> hash, final_hash |-> m.final_hash]
  BY <1>4, SMTT(30) DEF Hashed
<1> HIDE DEF spent, hash, display
<1>6. Final(m, p) = [key |-> m.key, packet_index |-> NextIndex(m.packet_index),
                     display_as_hex |-> m.display_as_hex, display |-> display,
                     hash_state |-> hash, final_hash |-> hash]
  BY <1>5 DEF Final
<1>7. Finished(m, p) = [key |-> m.key, packet_index |-> NextIndex(m.packet_index),
                     display_as_hex |-> m.display_as_hex, display |-> display,
                     hash_state |-> spent, final_hash |-> hash]
  BY <1>6 DEF Finished, spent
<1> USE DEF spent, hash, display
<1>8. Hashed(m, p) \in Messages /\ Finished(m, p) \in Messages
  BY <1>1, <1>2, <1>5, <1>7 DEF Messages
<1> QED
  BY <1>3, <1>5, <1>7, <1>8

\* A later packet of a message keeps the types, taken or refused.
LEMMA TypeSignMessageNext ==
    ASSUME TypeOK, UNCHANGED build, NEW p \in Packets, NEW last \in BOOLEAN, SignMessageNext(p, last)
    PROVE  TypeOK'
<1>1. PICK m \in sign_msg :
         \/ Throw("PARSE_ERROR") /\ UNCHANGED <<u, session>>
         \/ /\ Write("sign_msg", Indexed(m))
            /\ Throw("PARSE_ERROR")
            /\ session' = [Continued("sign_msg") EXCEPT !.refused = TRUE]
         \/ /\ IF last
               THEN Write("sign_msg", Finished(m, p)) /\ ui_prompt(MessagePrompt(Finished(m, p)))
               ELSE Write("sign_msg", Hashed(m, p)) /\ Reply(Ok)
            /\ session' = [Continued("sign_msg") EXCEPT !.packets = Append(@, p)]
  BY DEF SignMessageNext
<1>2. Ready /\ UNCHANGED N_data
  BY DEF SignMessageNext
<1>3. m \in Messages
  BY ReadTyped DEF TypeOK
<1>4. Indexed(m) \in Messages /\ Hashed(m, p) \in Messages /\ Finished(m, p) \in Messages
  BY <1>3, MessageFields
<1>5. u' \in Unions
  BY <1>1, <1>4, WriteTyped DEF TypeOK
<1>6. session' \in Sessions
  <2> DEFINE told == Continued("sign_msg")
  <2>1. told \in Sessions
    BY SessionsTyped DEF TypeOK, SessionKinds
  <2>2. told.packets \in Seq(Packets \cup Hashes)
    BY <2>1 DEF Sessions
  <2>3. Append(told.packets, p) \in Seq(Packets \cup Hashes)
    BY <2>2
  <2>4. [told EXCEPT !.packets = Append(@, p)] \in Sessions
    BY <2>1, <2>3 DEF Sessions
  <2> QED
    BY <1>1, <2>1, <2>4, ToldTyped DEF TypeOK
<1>7. MessagePrompt(Finished(m, p)) \in Screens \ {Idle}
  BY <1>4 DEF MessagePrompt, MessagePrompts, Messages, Screens, Idle
<1>8. screen' \in Screens /\ Answered'
  BY <1>1, <1>2, <1>7, Answers
<1> QED
  BY <1>2, <1>5, <1>6, <1>8 DEF TypeOK

\* Both packets of a hash keep the types.
LEMMA TypeSignMessageHash ==
    ASSUME TypeOK, UNCHANGED build,
           \/ \E path \in Paths \cup {Malformed} : SignMessageHashFirst(path)
           \/ \E too_long \in BOOLEAN, hash \in Hashes : SignMessageHashLast(too_long, hash)
    PROVE  TypeOK'
<1>1. ASSUME NEW path \in Paths \cup {Malformed}, SignMessageHashFirst(path) PROVE TypeOK'
  <2> DEFINE h == [key |-> ReadKey(path), hash_to_sign |-> Blank]
  <2>1. ReadKey(path) \in Paths \cup {NoKey}
    BY DEF ReadKey
  <2>2. h \in MessageHashes /\ h.key = ReadKey(path)
    BY <2>1 DEF MessageHashes
  <2>3. /\ Ready
        /\ UNCHANGED N_data
        /\ UNCHANGED u \/ Write("sign_msg_hash", h)
        /\ (\E status : Throw(status)) \/ Reply(Ok)
        /\ UNCHANGED session \/ session' = Told("sign_msg_hash", h.key, FALSE)
    BY <1>1 DEF SignMessageHashFirst
  <2> HIDE DEF h
  <2>4. u' \in Unions
    BY <2>2, <2>3, WriteTyped DEF TypeOK
  <2>5. session' \in Sessions
    BY <2>1, <2>2, <2>3, SessionsTyped DEF TypeOK, SessionKinds
  <2>6. screen' \in Screens /\ Answered'
    BY <2>3, Answers
  <2> QED
    BY <2>3, <2>4, <2>5, <2>6 DEF TypeOK
<1>2. ASSUME NEW too_long \in BOOLEAN, NEW hash \in Hashes, SignMessageHashLast(too_long, hash)
      PROVE  TypeOK'
  <2>1. CASE (\E status : Throw(status)) /\ UNCHANGED <<u, session>>
    <3>1. Ready /\ UNCHANGED N_data
      BY <1>2 DEF SignMessageHashLast
    <3> QED
      BY <2>1, <3>1, Answers DEF TypeOK
  <2>2. CASE ~((\E status : Throw(status)) /\ UNCHANGED <<u, session>>)
    <3>1. PICK h \in sign_msg_hash :
              LET given == [h EXCEPT !.hash_to_sign = hash]
              IN /\ Write("sign_msg_hash", given)
                 /\ ui_prompt(MessageHashPrompt(given))
                 /\ session' = [Continued("sign_msg_hash") EXCEPT !.packets = <<hash>>]
      BY <1>2, <2>2 DEF SignMessageHashLast
    <3> DEFINE given == [h EXCEPT !.hash_to_sign = hash]
    <3>2. given \in MessageHashes
      BY ReadTyped DEF TypeOK, MessageHashes
    <3>3. MessageHashPrompt(given) \in Screens \ {Idle}
      BY <3>2 DEF MessageHashPrompt, MessageHashPrompts, MessageHashes, Screens, Idle
    <3>4. <<hash>> \in Seq(Packets \cup Hashes)
      OBVIOUS
    <3>5. u' \in Unions
      BY <3>1, <3>2, WriteTyped
    <3>6. Ready /\ ui_prompt(MessageHashPrompt(given))
      BY <1>2, <3>1 DEF SignMessageHashLast
    <3>7. screen' \in Screens /\ Answered'
      BY <3>3, <3>6, Answers
    <3>8. session' \in Sessions
      BY <3>1, <3>4, SessionsTyped, ToldTyped DEF TypeOK, SessionKinds
    <3> QED
      BY <1>2, <3>5, <3>7, <3>8 DEF TypeOK, SignMessageHashLast
  <2> QED
    BY <2>1, <2>2
<1> QED
  BY <1>1, <1>2

\* The user's answer is a response to the host, whatever it is to.
LEMMA AnswerResponds == Approve \/ Reject => Ready' /\ UNCHANGED N_data
<1> SUFFICES ASSUME Approve \/ Reject PROVE Ready' /\ UNCHANGED N_data
  OBVIOUS
<1>1. response'.gives # "pending"
  <2>1. CASE Reject \/ pubkey_ok \/ sign_ok
    BY <2>1, Gives DEF Reject, pubkey_ok, sign_ok, Respond
  <2>2. CASE sign_message_ok \/ sign_message_hash_ok
    <3>1. \/ \E key, data : response' = Signature("message signature", key, data)
          \/ \E key, data : response' = Signature("hash signature", key, data)
          \/ \E status : response' = Error(status)
      BY <2>2, Zenon DEF sign_message_ok, sign_message_hash_ok, Respond
    <3>2. /\ \A key, data : Signature("message signature", key, data).gives # "pending"
          /\ \A key, data : Signature("hash signature", key, data).gives # "pending"
          /\ \A status : Error(status).gives # "pending"
      BY Gives, ZenonT(30)
    <3> QED
      BY <3>1, <3>2, Zenon
  <2> QED
    BY <2>1, <2>2 DEF Approve
<1> QED
  BY <1>1, Gives DEF Ready, Approve, Reject

\* What is answered has been asked: a prompt of a command that waits, or one that
\* a callback left behind.
LEMMA PromptOf ==
    ASSUME TypeOK, screen # Idle
    PROVE  /\ Ready => /\ build = "NBGL" /\ screen.cxl = "sign_reject"
                       /\ screen.ok \in {"sign_message_ok", "sign_message_hash_ok"}
           /\ screen.ok \in {"sign_message_ok", "sign_message_hash_ok"} =>
                screen \in MessagePrompts \cup MessageHashPrompts
<1>1. /\ \A p \in MessagePrompts \cup MessageHashPrompts :
             p.cxl = "sign_reject" /\ p.ok \in {"sign_message_ok", "sign_message_hash_ok"}
      /\ \A p \in PublicKeyPrompts : p.ok = "pubkey_ok"
      /\ TransactionPrompt.ok = "sign_ok"
  BY DEF MessagePrompts, MessageHashPrompts, PublicKeyPrompts, TransactionPrompt
<1> QED
  BY <1>1 DEF TypeOK, Answered, Screens

\* Whatever the user answers, the host has its status; the menu is back unless the
\* callback has thrown on a touch screen.
LEMMA TypeAnswer == TypeOK /\ (Approve \/ Reject) /\ UNCHANGED build => TypeOK'
<1> SUFFICES ASSUME TypeOK, Approve \/ Reject, UNCHANGED build PROVE TypeOK'
  OBVIOUS
<1>1. UNCHANGED N_data /\ Ready' /\ screen # Idle
  BY AnswerResponds DEF Approve, Reject
<1>2. u' \in Unions
  <2>1. ZeroMessage \in Messages /\ ZeroMessageHash \in MessageHashes
    BY IndexAssumption DEF ZeroMessage, Messages, ZeroMessageHash, MessageHashes
  <2> QED
    BY <2>1, WriteTyped
       DEF TypeOK, Approve, Reject, pubkey_ok, sign_ok, sign_message_ok, sign_message_hash_ok
<1>3. session' \in Sessions
  BY SessionsTyped
     DEF TypeOK, Approve, Reject, pubkey_ok, sign_ok, sign_message_ok, sign_message_hash_ok, SessionKinds
<1>4. \/ screen' = Idle
      \/ /\ screen' = screen /\ build # "BAGL"
         /\ screen.ok \in {"sign_message_ok", "sign_message_hash_ok"}
  BY DEF Approve, Reject, pubkey_ok, sign_ok, sign_message_ok, sign_message_hash_ok, AfterThrow
<1>5. screen' \in Screens /\ Answered'
  <2>1. CASE screen' = Idle
    BY <1>1, <2>1 DEF Answered, Screens
  <2>2. CASE screen' # Idle
    <3>1. screen' = screen /\ screen \in MessagePrompts \cup MessageHashPrompts /\ build = "NBGL"
      BY <1>1, <1>4, <2>2, PromptOf DEF TypeOK
    <3> QED
      BY <1>1, <2>2, <3>1 DEF Answered, Screens
  <2> QED
    BY <2>1, <2>2
<1> QED
  BY <1>1, <1>2, <1>3, <1>5 DEF TypeOK

\* Every step keeps the types.
LEMMA TypeNext == TypeOK /\ [Next]_vars => TypeOK'
<1> SUFFICES ASSUME TypeOK, [Next]_vars PROVE TypeOK'
  OBVIOUS
<1>0. UNCHANGED build
  BY DEF Next, vars
<1>1. CASE Undispatched \/ Information \/ TooLong \/ SignMessageOther \/ SignMessageHashOther
  BY <1>0, <1>1, TypeInformation
<1>2. CASE \E p1 \in {"no prompt", "verify", "other"}, path \in Paths \cup {Malformed} :
              GetPublicKey(p1, path)
  BY <1>0, <1>2, TypeGetPublicKey
<1>3. CASE \E valid \in BOOLEAN, path \in Keys : AccountImport(valid, path)
  BY <1>0, <1>3, TypeAccountImport
<1>4. CASE \E p1 \in {"FIRST", "NEXT", "other"}, last, secure_only \in BOOLEAN :
              Sign(p1, last, secure_only)
  BY <1>0, <1>4, TypeSign
<1>5. CASE \E empty, as_hex \in BOOLEAN, path \in Paths \cup {Malformed} :
              SignMessageFirst(empty, as_hex, path)
  BY <1>0, <1>5, TypeSignMessageFirst
<1>6. CASE \E p \in Packets, last \in BOOLEAN : SignMessageNext(p, last)
  BY <1>0, <1>6, TypeSignMessageNext
<1>7. CASE \/ \E path \in Paths \cup {Malformed} : SignMessageHashFirst(path)
           \/ \E too_long \in BOOLEAN, hash \in Hashes : SignMessageHashLast(too_long, hash)
  BY <1>0, <1>7, TypeSignMessageHash
<1>8. CASE Approve \/ Reject
  BY <1>0, <1>8, TypeAnswer
<1>9. CASE SwitchSetting \/ Restart
  BY <1>0, <1>9, TypeMenu
<1>10. CASE UNCHANGED vars
  BY <1>10 DEF vars, TypeOK, Answered, Ready
<1> QED
  BY <1>1, <1>2, <1>3, <1>4, <1>5, <1>6, <1>7, <1>8, <1>9, <1>10, Zenon DEF Next, Command, User

\* The types are kept for any set of paths, packets and hashes; a command that is
\* not answered has its prompt on the screen, and no prompt is there without one
\* but a touch screen's of a message or hash, when its callback has thrown.
THEOREM TypeCorrect == Spec => []TypeOK
BY TypeInit, TypeNext, PTL DEF Spec

-----------------------------------------------------------------------------
\* Honest signatures.  The inductive invariant relates what the host has told in
\* the session to the union and to the screen, which no property could read off
\* one step: between the packets any other command may come.

\* Cleared memory is the session of nobody.
ClearedSession == session.kind = "cleared" => u = Zeroed

\* The key of the session is the one in the union.
HashSession ==
    session.kind = "sign_msg_hash" => u.member = "sign_msg_hash" /\ u.value.key = session.key

\* So are the packets, as long as the key can sign, and the first of them is the
\* one displayed, or none after a refused one.
MessageSession ==
    session.kind = "sign_msg" =>
        /\ u.member = "sign_msg"
        /\ u.value.key = session.key
        /\ u.value.display_as_hex = session.as_hex
        /\ u.value.packet_index = 0 <=> session.packets = <<>> /\ ~session.refused
        /\ session.packets = <<>> \/ session.refused => u.value.display = Blank
        /\ session.packets # <<>> /\ ~session.refused =>
                u.value.display = Head(session.packets) /\ u.value.display \in WithMagic
        /\ Ready /\ session.key \in Keys => u.value.hash_state = session.packets

\* What is on the screen is in the union, and the user still allows it.
HashPrompted ==
    ~Ready /\ screen.ok = "sign_message_hash_ok" =>
        /\ N_data.sign_hash_type = "ON"
        /\ u.member = "sign_msg_hash"
        /\ screen.text = u.value.hash_to_sign

MessagePrompted ==
    ~Ready /\ screen.ok = "sign_message_ok" /\ session.kind = "sign_msg" =>
        /\ session.packets # <<>>
        /\ screen.text = u.value.display
        /\ screen.as_hex = u.value.display_as_hex
        /\ session.key \in Keys => u.value.final_hash = session.packets

\* Only a message or a hash is prompted for in their sessions.
OtherPrompted ==
    ~Ready /\ ~(screen.ok \in {"sign_message_ok", "sign_message_hash_ok"} /\ screen.cxl = "sign_reject") =>
        session.kind \in {"disturbed", "sign"}

Honest ==
    /\ ClearedSession /\ HashSession /\ MessageSession
    /\ HashPrompted /\ MessagePrompted /\ OtherPrompted

\* The app starts with cleared memory and nothing told.
LEMMA HonestInit == Init => Honest
<1>1. NothingTold.kind = "cleared"
  BY DEF NothingTold, Told
<1>2. Init => Ready
  BY Gives, Zenon DEF Init, Ready
<1> QED
  BY <1>1, <1>2
     DEF Init, Honest, ClearedSession, HashSession, MessageSession, HashPrompted, MessagePrompted, OtherPrompted

\* A command of another kind either changes nothing or disturbs the session.
LEMMA HonestElsewhere ==
    ASSUME Honest, Ready,
           UNCHANGED <<u, session>> \/ session'.kind \in {"disturbed", "sign"},
           Ready' \/ (screen'.ok \in {"pubkey_ok", "sign_ok"} /\ session'.kind \in {"disturbed", "sign"})
    PROVE  Honest'
BY DEF Honest, ClearedSession, HashSession, MessageSession, HashPrompted, MessagePrompted, OtherPrompted, Ready

\* What sessions begin with.
LEMMA Beginnings ==
    /\ Disturbed.kind = "disturbed" /\ NothingTold.kind = "cleared"
    /\ \A kind, key, as_hex :
          /\ Told(kind, key, as_hex).kind = kind
          /\ Told(kind, key, as_hex).key = key
          /\ Told(kind, key, as_hex).as_hex = as_hex
          /\ Told(kind, key, as_hex).packets = <<>>
          /\ Told(kind, key, as_hex).refused = FALSE
BY DEF Disturbed, NothingTold, Told

\* Commands that sign neither message nor hash.
LEMMA HonestOthers ==
    ASSUME TypeOK, Honest,
           \/ Undispatched \/ Information \/ TooLong \/ SignMessageOther \/ SignMessageHashOther
           \/ \E p1 \in {"no prompt", "verify", "other"}, path \in Paths \cup {Malformed} :
                  GetPublicKey(p1, path)
           \/ \E valid \in BOOLEAN, path \in Keys : AccountImport(valid, path)
           \/ SwitchSetting
    PROVE  Honest'
<1>1. CASE Undispatched \/ Information \/ TooLong \/ SignMessageOther \/ SignMessageHashOther \/ SwitchSetting
  <2>1. SwitchSetting => Ready /\ Ready'
    BY DEF SwitchSetting, TypeOK, Answered, Ready
  <2>2. Ready /\ Ready' /\ UNCHANGED <<u, session>>
    BY <1>1, <2>1, Replied DEF Undispatched, Information, TooLong, SignMessageOther, SignMessageHashOther,
                               SwitchSetting
  <2> QED
    BY <2>2, HonestElsewhere
<1>2. CASE \E p1 \in {"no prompt", "verify", "other"}, path \in Paths \cup {Malformed} :
              GetPublicKey(p1, path)
  <2>1. \A kind, key : PublicKeyPrompt(kind, key).ok = "pubkey_ok"
    BY DEF PublicKeyPrompt
  <2>2. Ready /\ (UNCHANGED <<u, session>> \/ session' = Disturbed)
    BY <1>2 DEF GetPublicKey
  <2>3. Ready' \/ (session' = Disturbed /\ \E kind, key : screen' = PublicKeyPrompt(kind, key))
    <3>1. \/ Throw("WRONG_PARAM") \/ Throw("PATH") \/ \E k : Reply(PublicKey(k))
          \/ session' = Disturbed /\ \E kind, key : ui_prompt(PublicKeyPrompt(kind, key))
      BY <1>2, Zenon DEF GetPublicKey
    <3>2. CASE Throw("WRONG_PARAM") \/ Throw("PATH") \/ \E k : Reply(PublicKey(k))
      BY <3>2, Replied
    <3>3. ASSUME NEW kind, NEW key, ui_prompt(PublicKeyPrompt(kind, key))
          PROVE  screen' = PublicKeyPrompt(kind, key)
      BY <3>3 DEF ui_prompt
    <3> QED
      BY <3>1, <3>2, <3>3
  <2>4. session' = Disturbed => session'.kind \in {"disturbed", "sign"}
    BY Beginnings
  <2> QED
    BY <2>1, <2>2, <2>3, <2>4, HonestElsewhere
<1>3. CASE \E valid \in BOOLEAN, path \in Keys : AccountImport(valid, path)
  <2>1. \A kind, key : PublicKeyPrompt(kind, key).ok = "pubkey_ok"
    BY DEF PublicKeyPrompt
  <2>2. Ready /\ (UNCHANGED <<u, session>> \/ session' = Disturbed)
    BY <1>3 DEF AccountImport
  <2>3. Ready' \/ (session' = Disturbed /\ \E kind, key : screen' = PublicKeyPrompt(kind, key))
    <3>1. \/ Throw("WRONG_PARAM")
          \/ session' = Disturbed /\ \E kind, key : ui_prompt(PublicKeyPrompt(kind, key))
      BY <1>3, Zenon DEF AccountImport
    <3>2. CASE Throw("WRONG_PARAM")
      BY <3>2, Replied
    <3>3. ASSUME NEW kind, NEW key, ui_prompt(PublicKeyPrompt(kind, key))
          PROVE  screen' = PublicKeyPrompt(kind, key)
      BY <3>3 DEF ui_prompt
    <3> QED
      BY <3>1, <3>2, <3>3
  <2>4. session' = Disturbed => session'.kind \in {"disturbed", "sign"}
    BY Beginnings
  <2> QED
    BY <2>1, <2>2, <2>3, <2>4, HonestElsewhere
<1> QED
  BY <1>1, <1>2, <1>3

\* Transactions disturb the sessions of messages and hashes.
LEMMA HonestSign ==
    ASSUME TypeOK, Honest, NEW p1 \in {"FIRST", "NEXT", "other"},
           NEW last \in BOOLEAN, NEW secure_only \in BOOLEAN,
           Sign(p1, last, secure_only)
    PROVE  Honest'
<1> DEFINE Told_(told) == told \in Sessions /\ told.kind \in {"disturbed", "sign"}
           After(told) ==
               /\ session' \in {told, [told EXCEPT !.refused = TRUE]}
               /\ Ready' \/ screen' = TransactionPrompt
<1>1. ASSUME NEW told, Told_(told), Ready, After(told) PROVE Honest'
  <2>1. [told EXCEPT !.refused = TRUE].kind = told.kind
    BY <1>1 DEF Sessions
  <2>2. TransactionPrompt.ok = "sign_ok"
    BY DEF TransactionPrompt
  <2>3. session'.kind \in {"disturbed", "sign"}
    BY <1>1, <2>1
  <2> QED
    BY <1>1, <2>2, <2>3, HonestElsewhere
<1>2. Told_(Told("sign", NoKey, FALSE)) /\ Told_(Continued("sign"))
  <2>1. Told("sign", NoKey, FALSE) \in Sessions /\ Continued("sign") \in Sessions
    BY SessionsTyped DEF TypeOK, SessionKinds
  <2>2. Continued("sign").kind \in {"disturbed", "sign"}
    <3>1. \/ session.kind = "sign" /\ Continued("sign") = session
          \/ Continued("sign") = Told("sign", NoKey, FALSE)
          \/ Continued("sign") = Disturbed
      BY Zenon DEF Continued
    <3> QED
      BY <3>1 DEF Told, Disturbed
  <2>3. Told("sign", NoKey, FALSE).kind = "sign"
    BY DEF Told
  <2> QED
    BY <2>1, <2>2, <2>3
<1>3. ASSUME NEW s, NEW told, Ready, sign_complete(s, told) PROVE After(told)
  <2>1. CASE ui_prompt(TransactionPrompt) /\ session' = told
    BY <2>1, Replied
  <2>2. CASE Throw("REJECT") /\ session' = [told EXCEPT !.refused = TRUE]
    BY <2>2, Replied
  <2> QED
    BY <1>3, <2>1, <2>2 DEF sign_complete
<1>4. ASSUME NEW s0, NEW told, Ready, SignPacket(s0, told, last, secure_only) PROVE After(told)
  <2>1. ASSUME NEW s, NEW status, Refused(s, told, status) PROVE After(told)
    BY <1>4, <2>1, Replied, Zenon DEF Refused
  <2>2. CASE s0.hard_reject
    BY <1>4, <2>1, <2>2 DEF SignPacket
  <2>3. CASE ~s0.hard_reject
    <3>1. \/ \E s, status : Refused(s, told, status)
          \/ Reply(Ok) /\ session' = told
          \/ \E s : sign_complete(s, told)
      BY <1>4, <2>3 DEF SignPacket
    <3>2. Reply(Ok) /\ session' = told => After(told)
      BY Replied
    <3> QED
      BY <1>3, <1>4, <2>1, <3>1, <3>2
  <2> QED
    BY <2>2, <2>3
<1>5. Ready
  BY DEF Sign
<1>6. \/ \E s : SignPacket(s, Told("sign", NoKey, FALSE), last, secure_only)
      \/ \E s : SignPacket(s, Continued("sign"), last, secure_only)
      \/ \E s : sign_complete(s, Continued("sign"))
      \/ Reply(Ok) /\ session' = Continued("sign")
  BY DEF Sign
<1>7. After(Told("sign", NoKey, FALSE)) \/ After(Continued("sign"))
  BY <1>3, <1>4, <1>5, <1>6, Replied
<1> HIDE DEF Told_, After
<1> QED
  BY <1>1, <1>2, <1>5, <1>7

\* The first packet of a message begins a session with its key.
LEMMA HonestSignMessageFirst ==
    ASSUME TypeOK, Honest, NEW empty \in BOOLEAN, NEW as_hex \in BOOLEAN,
           NEW path \in Paths \cup {Malformed},
           SignMessageFirst(empty, as_hex, path)
    PROVE  Honest'
<1>1. Ready'
  BY Replied DEF SignMessageFirst
<1>2. \E key, hex :
        /\ session' = Told("sign_msg", key, hex)
        /\ u' = [member |-> "sign_msg",
                 value |-> [key |-> key, packet_index |-> 0, display_as_hex |-> hex,
                            display |-> Blank, hash_state |-> <<>>, final_hash |-> <<>>]]
  BY DEF SignMessageFirst, Write, ZeroMessage
<1> QED
  BY <1>1, <1>2, Beginnings
     DEF Honest, ClearedSession, HashSession, MessageSession, HashPrompted, MessagePrompted, OtherPrompted, Ready

\* The first packet of a hash begins a session with its key, or is refused.
LEMMA HonestSignMessageHashFirst ==
    ASSUME TypeOK, Honest, NEW path \in Paths \cup {Malformed}, SignMessageHashFirst(path)
    PROVE  Honest'
<1>1. Ready /\ Ready'
  BY Replied DEF SignMessageHashFirst
<1>2. CASE UNCHANGED <<u, session>>
  BY <1>1, <1>2, HonestElsewhere
<1>3. CASE ~UNCHANGED <<u, session>>
  <2>1. PICK key :
          /\ session' = Told("sign_msg_hash", key, FALSE)
          /\ u' = [member |-> "sign_msg_hash", value |-> [key |-> key, hash_to_sign |-> Blank]]
    BY <1>3 DEF SignMessageHashFirst, Write
  <2>2. session'.kind = "sign_msg_hash" /\ session'.key = key
    BY <2>1 DEF Told
  <2> QED
    BY <1>1, <2>1, <2>2
       DEF Honest, ClearedSession, HashSession, MessageSession, HashPrompted, MessagePrompted, OtherPrompted, Ready
<1> QED
  BY <1>2, <1>3

\* The message a later packet continues, and the session it belongs to.
Belongs(m, told) ==
    /\ m.key = told.key
    /\ m.display_as_hex = told.as_hex
    /\ m.packet_index = 0 <=> told.packets = <<>> /\ ~told.refused
    /\ told.packets = <<>> \/ told.refused => m.display = Blank
    /\ told.packets # <<>> /\ ~told.refused => m.display = Head(told.packets) /\ m.display \in WithMagic
    /\ told.key \in Keys => m.hash_state = told.packets

\* Both are as the packets before left them, unless another command disturbed them.
LEMMA ContinuedMessage ==
    ASSUME TypeOK, Honest, Ready, NEW m \in sign_msg, NEW told, told = Continued("sign_msg")
    PROVE  /\ m \in Messages /\ told \in Sessions
           /\ told.kind = "disturbed" \/ (told.kind = "sign_msg" /\ Belongs(m, told))
<1>1. m \in Messages
  BY ReadTyped DEF TypeOK
<1>2. told \in Sessions
  BY SessionsTyped DEF TypeOK, SessionKinds
<1>3. CASE session.kind = "sign_msg"
  <2>1. told = session
    BY <1>3 DEF Continued
  <2>2. u.member = "sign_msg" /\ MessageSession
    BY <1>3 DEF Honest, MessageSession
  <2>3. m = u.value
    BY <2>2 DEF sign_msg, Read
  <2> QED
    BY <1>1, <1>2, <1>3, <2>1, <2>2, <2>3 DEF MessageSession, Belongs
<1>4. CASE session.kind = "cleared"
  <2>1. told = Told("sign_msg", NoKey, FALSE)
    BY <1>4 DEF Continued
  <2>2. m = ZeroMessage
    <3>1. u = Zeroed
      BY <1>4 DEF Honest, ClearedSession
    <3>2. Zeroed.member # "sign_msg"
      BY DEF Zeroed
    <3> QED
      BY <3>1, <3>2 DEF sign_msg, Read
  <2>3. Belongs(ZeroMessage, Told("sign_msg", NoKey, FALSE))
    BY PathsAssumption DEF Belongs, ZeroMessage, Told, Paths
  <2>4. Told("sign_msg", NoKey, FALSE).kind = "sign_msg"
    BY DEF Told
  <2> QED
    BY <1>1, <1>2, <2>1, <2>2, <2>3, <2>4
<1>5. CASE session.kind \notin {"sign_msg", "cleared"}
  <2>1. told = Disturbed
    BY <1>5 DEF Continued
  <2> QED
    BY <1>1, <1>2, <2>1, Beginnings
<1> QED
  BY <1>3, <1>4, <1>5

\* A packet more, at both ends.
LEMMA BelongsNext ==
    ASSUME NEW m \in Messages, NEW told \in Sessions, NEW p \in Packets, Belongs(m, told),
           ~IndexFull(m.packet_index)
    PROVE  /\ NextIndex(m.packet_index) # 0
           /\ Append(told.packets, p) # <<>>
           /\ LacksMagic(m, p) => ~told.refused /\ told.packets = <<>> /\ m.display = Blank
           /\ ~LacksMagic(m, p) =>
                \A n \in {Hashed(m, p), Finished(m, p)} :
                    IF told.refused THEN n.display = Blank
                    ELSE n.display = Head(Append(told.packets, p)) /\ n.display \in WithMagic
<1>1. m.packet_index \in 0 .. MaxIndex /\ ~(m.packet_index >= MaxIndex)
  BY DEF Messages, IndexFull
<1>2. NextIndex(m.packet_index) = m.packet_index + 1
  BY <1>1, IndexAssumption DEF NextIndex
<1> DEFINE ps == told.packets
<1>3. ps \in Seq(Packets \cup Hashes) /\ told.refused \in BOOLEAN
  BY DEF Sessions
<1> HIDE DEF ps
<1>4. Append(ps, p) # <<>> /\ Head(Append(ps, p)) = IF ps = <<>> THEN p ELSE Head(ps)
  BY <1>3, AppendProperties
<1>5. NextIndex(m.packet_index) # 0 /\ (NextIndex(m.packet_index) = 1 <=> ps = <<>> /\ ~told.refused)
  BY <1>1, <1>2 DEF Belongs, ps
<1>6. LacksMagic(m, p) <=> ps = <<>> /\ ~told.refused /\ p \notin WithMagic
  BY <1>5, MessageFields DEF LacksMagic
<1>7. \A n \in {Hashed(m, p), Finished(m, p)} :
          n.display = IF NextIndex(m.packet_index) = 1 THEN p ELSE m.display
  BY MessageFields
<1>8. LacksMagic(m, p) => m.display = Blank
  BY <1>6 DEF Belongs, ps
<1>9. ASSUME ~LacksMagic(m, p), NEW n \in {Hashed(m, p), Finished(m, p)}
      PROVE  IF told.refused THEN n.display = Blank
             ELSE n.display = Head(Append(ps, p)) /\ n.display \in WithMagic
  <2>1. CASE ps = <<>> /\ ~told.refused
    BY <1>4, <1>5, <1>6, <1>7, <1>9, <2>1
  <2>2. CASE ~(ps = <<>> /\ ~told.refused)
    <3>1. n.display = m.display
      BY <1>5, <1>7, <2>2
    <3> QED
      BY <1>4, <2>2, <3>1 DEF Belongs, ps
  <2> QED
    BY <2>1, <2>2
<1> QED
  BY <1>4, <1>5, <1>6, <1>8, <1>9 DEF ps

\* A later packet adds to the session what it adds to the hash.
LEMMA HonestSignMessageNext ==
    ASSUME TypeOK, Honest, NEW p \in Packets, NEW last \in BOOLEAN, SignMessageNext(p, last)
    PROVE  Honest'
<1>1. PICK m \in sign_msg :
         \/ /\ Throw("PARSE_ERROR")
            /\ UNCHANGED <<u, session>>
         \/ /\ ~IndexFull(m.packet_index) /\ LacksMagic(m, p)
            /\ Write("sign_msg", Indexed(m))
            /\ Throw("PARSE_ERROR")
            /\ session' = [Continued("sign_msg") EXCEPT !.refused = TRUE]
         \/ /\ ~IndexFull(m.packet_index) /\ ~LacksMagic(m, p)
            /\ IF last
               THEN Write("sign_msg", Finished(m, p)) /\ ui_prompt(MessagePrompt(Finished(m, p)))
               ELSE Write("sign_msg", Hashed(m, p)) /\ Reply(Ok)
            /\ session' = [Continued("sign_msg") EXCEPT !.packets = Append(@, p)]
  BY DEF SignMessageNext
<1> DEFINE told == Continued("sign_msg")
<1>2. Ready
  BY DEF SignMessageNext
<1>3. /\ m \in Messages /\ told \in Sessions
      /\ told.kind = "disturbed" \/ (told.kind = "sign_msg" /\ Belongs(m, told))
  BY <1>2, ContinuedMessage
<1> HIDE DEF told
<1>4. CASE Throw("PARSE_ERROR") /\ UNCHANGED <<u, session>>
  BY <1>2, <1>4, HonestElsewhere, Replied
<1>5. CASE /\ ~IndexFull(m.packet_index) /\ LacksMagic(m, p)
           /\ Write("sign_msg", Indexed(m))
           /\ Throw("PARSE_ERROR")
           /\ session' = [told EXCEPT !.refused = TRUE]
  <2>1. Ready'
    BY <1>5, Replied
  <2>2. /\ session'.kind = told.kind /\ session'.key = told.key /\ session'.as_hex = told.as_hex
        /\ session'.packets = told.packets /\ session'.refused = TRUE
    BY <1>3, <1>5 DEF Sessions
  <2>3. CASE told.kind = "disturbed"
    BY <1>2, <2>1, <2>2, <2>3, HonestElsewhere
  <2>4. CASE told.kind = "sign_msg" /\ Belongs(m, told)
    <3>1. u'.member = "sign_msg" /\ u'.value = Indexed(m)
      BY <1>5 DEF Write
    <3>2. /\ Indexed(m).key = m.key /\ Indexed(m).display_as_hex = m.display_as_hex
          /\ Indexed(m).packet_index # 0
          /\ Indexed(m).display = m.display /\ Indexed(m).hash_state = m.hash_state
          /\ m.display = Blank
      BY <1>3, <1>5, <2>4, MessageFields, BelongsNext
    <3> QED
      BY <2>1, <2>2, <2>4, <3>1, <3>2
         DEF Belongs, Honest, ClearedSession, HashSession, MessageSession, HashPrompted,
             MessagePrompted, OtherPrompted
  <2> QED
    BY <1>3, <2>3, <2>4
<1>6. CASE /\ ~IndexFull(m.packet_index) /\ ~LacksMagic(m, p)
           /\ IF last
              THEN Write("sign_msg", Finished(m, p)) /\ ui_prompt(MessagePrompt(Finished(m, p)))
              ELSE Write("sign_msg", Hashed(m, p)) /\ Reply(Ok)
           /\ session' = [told EXCEPT !.packets = Append(@, p)]
  <2>1. /\ session'.kind = told.kind /\ session'.key = told.key /\ session'.as_hex = told.as_hex
        /\ session'.packets = Append(told.packets, p) /\ session'.refused = told.refused
    BY <1>3, <1>6 DEF Sessions
  <2>2. PICK n \in {Hashed(m, p), Finished(m, p)} :
            /\ u'.member = "sign_msg" /\ u'.value = n
            /\ \/ Ready' /\ n = Hashed(m, p)
               \/ n = Finished(m, p) /\ ui_prompt(MessagePrompt(n))
    BY <1>6, Replied DEF Write
  <2>3. n = Finished(m, p) /\ ui_prompt(MessagePrompt(n)) =>
            /\ screen'.ok = "sign_message_ok" /\ screen'.cxl = "sign_reject"
            /\ screen'.text = n.display /\ screen'.as_hex = n.display_as_hex
            /\ ~Ready'
    <3>1. ui_prompt(MessagePrompt(n)) => screen' = MessagePrompt(n) /\ ~Ready'
      BY Replied
    <3> QED
      BY <3>1 DEF MessagePrompt
  <2>4. CASE told.kind = "disturbed"
    BY <2>1, <2>2, <2>3, <2>4
       DEF Honest, ClearedSession, HashSession, MessageSession, HashPrompted, MessagePrompted,
           OtherPrompted
  <2>5. CASE told.kind = "sign_msg" /\ Belongs(m, told)
    <3>1. /\ n.key = m.key /\ n.display_as_hex = m.display_as_hex
          /\ n.packet_index = NextIndex(m.packet_index)
          /\ Hashed(m, p).hash_state = Append(m.hash_state, p)
          /\ Finished(m, p).final_hash = Append(m.hash_state, p)
      BY <1>3, MessageFields
    <3>2. /\ NextIndex(m.packet_index) # 0
          /\ Append(told.packets, p) # <<>>
          /\ IF told.refused THEN n.display = Blank
             ELSE n.display = Head(Append(told.packets, p)) /\ n.display \in WithMagic
      BY <1>3, <1>6, <2>5, BelongsNext
    <3>3. told.key \in Keys => Append(m.hash_state, p) = Append(told.packets, p)
      BY <2>5 DEF Belongs
    <3>4. m.key = told.key /\ m.display_as_hex = told.as_hex
      BY <2>5 DEF Belongs
    <3>5. MessageSession'
      BY <2>1, <2>2, <2>3, <2>5, <3>1, <3>2, <3>3, <3>4 DEF MessageSession
    <3>6. MessagePrompted'
      BY <2>1, <2>2, <2>3, <2>5, <3>1, <3>2, <3>3, <3>4 DEF MessagePrompted
    <3>7. ClearedSession' /\ HashSession' /\ HashPrompted' /\ OtherPrompted'
      BY <2>1, <2>2, <2>3, <2>5 DEF ClearedSession, HashSession, HashPrompted, OtherPrompted
    <3> QED
      BY <3>5, <3>6, <3>7 DEF Honest
  <2> QED
    BY <1>3, <2>4, <2>5
<1> QED
  BY <1>1, <1>4, <1>5, <1>6 DEF told

\* The hash of the last packet goes to the screen with the key of the first one.
LEMMA HonestSignMessageHashLast ==
    ASSUME TypeOK, Honest, NEW too_long \in BOOLEAN, NEW hash \in Hashes,
           SignMessageHashLast(too_long, hash)
    PROVE  Honest'
<1>1. Ready /\ UNCHANGED N_data
  BY DEF SignMessageHashLast
<1>2. CASE (\E status : Throw(status)) /\ UNCHANGED <<u, session>>
  BY <1>1, <1>2, HonestElsewhere, Replied
<1>3. CASE ~((\E status : Throw(status)) /\ UNCHANGED <<u, session>>)
  <2> DEFINE told == Continued("sign_msg_hash")
  <2>1. /\ N_data.sign_hash_type = "ON"
        /\ \E h \in sign_msg_hash :
              LET given == [h EXCEPT !.hash_to_sign = hash]
              IN /\ Write("sign_msg_hash", given)
                 /\ ui_prompt(MessageHashPrompt(given))
                 /\ session' = [told EXCEPT !.packets = <<hash>>]
    BY <1>3 DEF SignMessageHashLast, SignHashAllowed
  <2>2. PICK h \in sign_msg_hash :
              LET given == [h EXCEPT !.hash_to_sign = hash]
              IN /\ Write("sign_msg_hash", given)
                 /\ ui_prompt(MessageHashPrompt(given))
                 /\ session' = [told EXCEPT !.packets = <<hash>>]
    BY <2>1
  <2> DEFINE given == [h EXCEPT !.hash_to_sign = hash]
  <2>3. h \in MessageHashes
    BY ReadTyped DEF TypeOK
  <2>4. given.key = h.key /\ given.hash_to_sign = hash
    BY <2>3 DEF MessageHashes
  <2>5. told \in Sessions
    BY SessionsTyped DEF TypeOK, SessionKinds
  <2>6. told.kind = "disturbed" \/ (told.kind = "sign_msg_hash" /\ h.key = told.key)
    <3>1. CASE session.kind = "sign_msg_hash"
      <4>1. told = session
        BY <3>1 DEF Continued
      <4>2. u.member = "sign_msg_hash" /\ u.value.key = session.key
        BY <3>1 DEF Honest, HashSession
      <4>3. h = u.value
        BY <4>2 DEF sign_msg_hash, Read
      <4> QED
        BY <3>1, <4>1, <4>2, <4>3
    <3>2. CASE session.kind = "cleared"
      <4>1. told = Told("sign_msg_hash", NoKey, FALSE)
        BY <3>2 DEF Continued
      <4>2. u = Zeroed
        BY <3>2 DEF Honest, ClearedSession
      <4>3. Zeroed.member # "sign_msg_hash"
        BY DEF Zeroed
      <4>4. h = ZeroMessageHash
        BY <4>2, <4>3 DEF sign_msg_hash, Read
      <4> HIDE DEF told
      <4> QED
        BY <4>1, <4>4 DEF ZeroMessageHash, Told
    <3>3. CASE session.kind \notin {"sign_msg_hash", "cleared"}
      <4>1. told = Disturbed
        BY <3>3 DEF Continued
      <4> QED
        BY <4>1, Beginnings
    <3> QED
      BY <3>1, <3>2, <3>3
  <2> HIDE DEF told
  <2>7. session'.kind = told.kind /\ session'.key = told.key
    BY <2>2, <2>5 DEF Sessions
  <2>8. u'.member = "sign_msg_hash" /\ u'.value = given
    BY <2>2 DEF Write
  <2>9. /\ screen' = MessageHashPrompt(given)
        /\ MessageHashPrompt(given).ok = "sign_message_hash_ok"
        /\ MessageHashPrompt(given).cxl = "sign_reject"
        /\ MessageHashPrompt(given).text = given.hash_to_sign
    BY <2>2 DEF ui_prompt, MessageHashPrompt
  <2> HIDE DEF given
  <2> QED
    BY <1>1, <2>1, <2>4, <2>6, <2>7, <2>8, <2>9
       DEF Honest, ClearedSession, HashSession, MessageSession, HashPrompted, MessagePrompted, OtherPrompted
<1> QED
  BY <1>2, <1>3

\* An answer ends what was prompted for; a key the system refuses signs later
\* neither.
LEMMA HonestAnswer == TypeOK /\ Honest /\ (Approve \/ Reject) => Honest'
<1> SUFFICES ASSUME TypeOK, Honest, Approve \/ Reject PROVE Honest'
  OBVIOUS
<1>1. Ready' /\ screen # Idle
  BY AnswerResponds DEF Approve, Reject
<1>2. CASE u' = Zeroed /\ session' = NothingTold
  BY <1>1, <1>2, Beginnings
     DEF Honest, ClearedSession, HashSession, MessageSession, HashPrompted, MessagePrompted, OtherPrompted
<1>3. CASE UNCHANGED <<u, session>> /\ session.kind \in {"disturbed", "sign"}
  BY <1>1, <1>3
     DEF Honest, ClearedSession, HashSession, MessageSession, HashPrompted, MessagePrompted, OtherPrompted
<1>4. CASE sign_message_ok
  <2>1. PICK m \in sign_msg :
          \/ Write("sign_msg", ZeroMessage) /\ session' = Told("sign_msg", NoKey, FALSE)
          \/ MayRefuse(m.key) /\ UNCHANGED <<u, session>>
    BY <1>4 DEF sign_message_ok
  <2>2. CASE Write("sign_msg", ZeroMessage) /\ session' = Told("sign_msg", NoKey, FALSE)
    <3>1. u'.member = "sign_msg" /\ u'.value = ZeroMessage
      BY <2>2 DEF Write
    <3>2. /\ session'.kind = "sign_msg" /\ session'.key = NoKey
          /\ session'.as_hex = FALSE /\ session'.packets = <<>> /\ session'.refused = FALSE
      BY <2>2 DEF Told
    <3>3. /\ ZeroMessage.key = NoKey /\ ZeroMessage.display_as_hex = FALSE
          /\ ZeroMessage.display = Blank /\ ZeroMessage.packet_index = 0
      BY DEF ZeroMessage
    <3>4. NoKey \notin Keys
      BY PathsAssumption DEF Paths
    <3> QED
      BY <1>1, <3>1, <3>2, <3>3, <3>4
         DEF Honest, ClearedSession, HashSession, MessageSession, HashPrompted,
             MessagePrompted, OtherPrompted
  <2>3. CASE MayRefuse(m.key) /\ UNCHANGED <<u, session>>
    <3>1. session.kind = "sign_msg" => session.key \notin Keys
      BY <2>3 DEF Honest, MessageSession, sign_msg, Read, MayRefuse
    <3> QED
      BY <1>1, <2>3, <3>1
         DEF Honest, ClearedSession, HashSession, MessageSession, HashPrompted, MessagePrompted, OtherPrompted
  <2> QED
    BY <2>1, <2>2, <2>3
<1>5. CASE sign_message_hash_ok
  <2>1. \/ Write("sign_msg_hash", ZeroMessageHash) /\ session' = Told("sign_msg_hash", NoKey, FALSE)
        \/ UNCHANGED <<u, session>>
    BY <1>5 DEF sign_message_hash_ok
  <2>2. CASE Write("sign_msg_hash", ZeroMessageHash) /\ session' = Told("sign_msg_hash", NoKey, FALSE)
    <3>1. u'.member = "sign_msg_hash" /\ u'.value = ZeroMessageHash
      BY <2>2 DEF Write
    <3>2. session'.kind = "sign_msg_hash" /\ session'.key = NoKey
      BY <2>2 DEF Told
    <3> QED
      BY <1>1, <3>1, <3>2
         DEF ZeroMessageHash, Honest, ClearedSession, HashSession, MessageSession, HashPrompted,
             MessagePrompted, OtherPrompted
  <2>3. CASE UNCHANGED <<u, session>>
    <3>1. ~Ready => u.member = "sign_msg_hash"
      BY <1>5 DEF Honest, HashPrompted, sign_message_hash_ok
    <3>2. ~Ready => session.kind # "sign_msg"
      BY <3>1 DEF Honest, MessageSession
    <3> QED
      BY <1>1, <2>3, <3>2
         DEF Honest, ClearedSession, HashSession, MessageSession, HashPrompted, MessagePrompted, OtherPrompted
  <2> QED
    BY <2>1, <2>2, <2>3
<1>6. CASE Reject
  <2>1. CASE screen.cxl = "sign_reject"
    BY <1>2, <1>6, <2>1 DEF Reject, clear_data
  <2>2. CASE screen.cxl # "sign_reject"
    BY <1>1, <1>3, <1>6, <2>2, PromptOf DEF Reject, Honest, OtherPrompted
  <2> QED
    BY <2>1, <2>2
<1>7. CASE pubkey_ok
  BY <1>1, <1>3, <1>7, PromptOf DEF pubkey_ok, Honest, OtherPrompted
<1>8. CASE sign_ok
  BY <1>2, <1>8 DEF sign_ok, clear_data
<1> QED
  BY <1>4, <1>5, <1>6, <1>7, <1>8 DEF Approve

\* Every step keeps the invariant.
LEMMA HonestNext == TypeOK /\ Honest /\ [Next]_vars => Honest'
<1> SUFFICES ASSUME TypeOK, Honest, [Next]_vars PROVE Honest'
  OBVIOUS
<1>1. CASE \/ Undispatched \/ Information \/ TooLong \/ SignMessageOther \/ SignMessageHashOther
           \/ \E p1 \in {"no prompt", "verify", "other"}, path \in Paths \cup {Malformed} :
                  GetPublicKey(p1, path)
           \/ \E valid \in BOOLEAN, path \in Keys : AccountImport(valid, path)
           \/ SwitchSetting
  BY <1>1, HonestOthers
<1>2. CASE \E p1 \in {"FIRST", "NEXT", "other"}, last, secure_only \in BOOLEAN :
              Sign(p1, last, secure_only)
  BY <1>2, HonestSign
<1>3. CASE \E empty, as_hex \in BOOLEAN, path \in Paths \cup {Malformed} :
              SignMessageFirst(empty, as_hex, path)
  BY <1>3, HonestSignMessageFirst
<1>4. CASE \E p \in Packets, last \in BOOLEAN : SignMessageNext(p, last)
  BY <1>4, HonestSignMessageNext
<1>5. CASE \E path \in Paths \cup {Malformed} : SignMessageHashFirst(path)
  BY <1>5, HonestSignMessageHashFirst
<1>6. CASE \E too_long \in BOOLEAN, hash \in Hashes : SignMessageHashLast(too_long, hash)
  BY <1>6, HonestSignMessageHashLast
<1>7. CASE Approve \/ Reject
  BY <1>7, HonestAnswer
<1>8. CASE Restart
  <2>1. u' = Zeroed /\ session' = NothingTold /\ Ready'
    BY <1>8, Gives DEF Restart, clear_data, Respond, Ready
  <2> QED
    BY <2>1, Beginnings
       DEF Honest, ClearedSession, HashSession, MessageSession, HashPrompted, MessagePrompted, OtherPrompted
<1>9. CASE UNCHANGED vars
  BY <1>9 DEF vars, Honest, ClearedSession, HashSession, MessageSession, HashPrompted, MessagePrompted,
              OtherPrompted, Ready
<1> QED
  BY <1>1, <1>2, <1>3, <1>4, <1>5, <1>6, <1>7, <1>8, <1>9, Zenon DEF Next, Command, User

\* The user's approval, and nothing else, makes a signature.
LEMMA OnlyApprovalSigns ==
    ASSUME TypeOK, Next, ~Ready, response'.gives \in {"message signature", "hash signature"}
    PROVE  sign_message_ok \/ sign_message_hash_ok
<1> DEFINE Quiet(r) ==
        \/ r = NoResponse \/ r = Ok \/ r = TransactionSignature
        \/ \E status : r = Error(status)
        \/ \E k : r = PublicKey(k)
<1>1. ASSUME NEW r, Quiet(r) PROVE r.gives \notin {"message signature", "hash signature"}
  <2>1. CASE r = NoResponse \/ r = Ok \/ r = TransactionSignature
    BY <2>1, Gives
  <2>2. CASE \E status : r = Error(status)
    <3>1. r.gives = "error"
      BY <2>2, Gives, Zenon
    <3> QED
      BY <3>1
  <2>3. CASE \E k : r = PublicKey(k)
    <3>1. r.gives = "public key"
      BY <2>3, Gives, Zenon
    <3> QED
      BY <3>1
  <2> QED
    BY <1>1, <2>1, <2>2, <2>3
<1>2. CASE \/ Undispatched \/ Information \/ TooLong \/ SignMessageOther \/ SignMessageHashOther
           \/ \E p1 \in {"no prompt", "verify", "other"}, path \in Paths \cup {Malformed} :
                  GetPublicKey(p1, path)
           \/ \E valid \in BOOLEAN, path \in Keys : AccountImport(valid, path)
           \/ SwitchSetting \/ Restart
           \/ \E empty, as_hex \in BOOLEAN, path \in Paths \cup {Malformed} :
                  SignMessageFirst(empty, as_hex, path)
           \/ \E path \in Paths \cup {Malformed} : SignMessageHashFirst(path)
  <2>1. ~SwitchSetting
    BY DEF SwitchSetting, TypeOK, Answered
  <2>2. Quiet(response')
    BY <1>2, <2>1, Zenon
       DEF Undispatched, Information, TooLong, SignMessageOther, SignMessageHashOther, GetPublicKey,
           AccountImport, Restart, SignMessageFirst, SignMessageHashFirst,
           Throw, Reply, Respond, ui_prompt
  <2> QED
    BY <1>1, <2>2
<1>3. CASE \/ \E p \in Packets, last \in BOOLEAN : SignMessageNext(p, last)
           \/ \E too_long \in BOOLEAN, hash \in Hashes : SignMessageHashLast(too_long, hash)
  <2>1. Quiet(response')
    BY <1>3, Zenon DEF SignMessageNext, SignMessageHashLast, Throw, Reply, Respond, ui_prompt
  <2> QED
    BY <1>1, <2>1
<1>4. CASE \E p1 \in {"FIRST", "NEXT", "other"}, last, secure_only \in BOOLEAN :
              Sign(p1, last, secure_only)
  <2>1. ASSUME NEW s, NEW told, sign_complete(s, told) PROVE Quiet(response')
    BY <2>1, Zenon DEF sign_complete, ui_prompt, Throw, Reply, Respond
  <2>2. ASSUME NEW s, NEW told, NEW status, Refused(s, told, status) PROVE Quiet(response')
    BY <2>2, Zenon DEF Refused, Throw, Reply, Respond
  <2>3. Reply(Ok) => Quiet(response')
    BY DEF Reply, Respond
  <2>4. ASSUME NEW s0, NEW told, NEW last, NEW secure_only, SignPacket(s0, told, last, secure_only)
        PROVE  Quiet(response')
    <3>1. \/ \E s, status : Refused(s, told, status)
          \/ Reply(Ok)
          \/ \E s : sign_complete(s, told)
      BY <2>4 DEF SignPacket
    <3> QED
      BY <2>1, <2>2, <2>3, <3>1
  <2>5. \/ \E s, told, last, secure_only : SignPacket(s, told, last, secure_only)
        \/ \E s, told : sign_complete(s, told)
        \/ Reply(Ok)
    BY <1>4, Zenon DEF Sign
  <2>6. Quiet(response')
    BY <2>1, <2>3, <2>4, <2>5
  <2> QED
    BY <1>1, <2>6
<1>5. CASE Reject \/ pubkey_ok \/ sign_ok
  <2>1. Quiet(response')
    BY <1>5, Zenon DEF Reject, pubkey_ok, sign_ok, Respond
  <2> QED
    BY <1>1, <2>1
<1>6. CASE Approve /\ (sign_message_ok \/ sign_message_hash_ok)
  BY <1>6 DEF Approve
<1> QED
  BY <1>2, <1>3, <1>4, <1>5, <1>6, Zenon DEF Next, Command, User, Approve

\* A signature of a message is by the key of its session over exactly the packets
\* accepted in it, the first of which was on the screen.
THEOREM MessagesHonest == Spec => MessageSignatureHonest
<1> DEFINE Signed == ~Ready /\ response'.gives = "message signature" /\ session.kind = "sign_msg"
           Promise ==
               /\ session.key \in Keys
               /\ response'.key = session.key
               /\ response'.data = session.packets
               /\ screen.as_hex = session.as_hex
               /\ IF session.refused
                  THEN screen.text = Blank
                  ELSE screen.text = Head(session.packets) /\ screen.text \in WithMagic
<1>1. TypeOK /\ Honest /\ [Next]_vars => [Signed => Promise]_vars
  <2> SUFFICES ASSUME TypeOK, Honest, Next, Signed PROVE Promise
    BY DEF vars
  <2>1. ~Ready /\ (sign_message_ok \/ sign_message_hash_ok)
    BY OnlyApprovalSigns
  <2>2. sign_message_ok
    <3>1. ~sign_message_hash_ok
      <4> SUFFICES ASSUME sign_message_hash_ok PROVE FALSE
        OBVIOUS
      <4>1. u.member = "sign_msg_hash"
        BY <2>1 DEF Honest, HashPrompted, sign_message_hash_ok
      <4> QED
        BY <4>1 DEF Honest, MessageSession
    <3> QED
      BY <2>1, <3>1
  <2>3. u.member = "sign_msg" /\ u.value.key = session.key /\ u.value.display_as_hex = session.as_hex
    BY DEF Honest, MessageSession
  <2>4. sign_msg = {u.value}
    BY <2>3 DEF sign_msg, Read
  <2>5. \/ /\ MayDerive(u.value.key)
           /\ response' = Signature("message signature", u.value.key, u.value.final_hash)
        \/ response' = Error("DERIVATION")
    BY <2>2, <2>4, Zenon DEF sign_message_ok, Respond
  <2>6. /\ MayDerive(u.value.key)
        /\ response'.key = u.value.key /\ response'.data = u.value.final_hash
    <3>1. Error("DERIVATION").gives # "message signature"
      BY DEF Error
    <3>2. response' = Signature("message signature", u.value.key, u.value.final_hash) /\ MayDerive(u.value.key)
      BY <2>5, <3>1, Zenon
    <3> QED
      BY <3>2 DEF Signature
  <2>7. session.key \in Keys
    <3>1. session.key \in Paths \cup {NoKey}
      BY DEF TypeOK, Sessions
    <3> QED
      BY <2>3, <2>6, <3>1, PathsAssumption DEF MayDerive, Paths
  <2>8. /\ session.packets # <<>>
        /\ screen.text = u.value.display
        /\ screen.as_hex = u.value.display_as_hex
        /\ u.value.final_hash = session.packets
    BY <2>1, <2>2, <2>7 DEF Honest, MessagePrompted, sign_message_ok
  <2>9. IF session.refused
        THEN u.value.display = Blank
        ELSE u.value.display = Head(session.packets) /\ u.value.display \in WithMagic
    BY <2>8 DEF Honest, MessageSession
  <2> QED
    BY <2>3, <2>6, <2>7, <2>8, <2>9
<1> QED
  BY <1>1, TypeInit, TypeNext, HonestInit, HonestNext, PTL DEF Spec, MessageSignatureHonest

\* A signature of a hash is of the hash on the screen, while the user allows it,
\* and by the key of its session.
THEOREM HashesHonest == Spec => HashSignatureHonest
<1> DEFINE Signed == ~Ready /\ response'.gives = "hash signature"
           Promise ==
               /\ N_data.sign_hash_type = "ON"
               /\ screen.text = response'.data
               /\ session.kind = "sign_msg_hash" =>
                     session.key \in Keys /\ response'.key = session.key
<1>1. TypeOK /\ Honest /\ [Next]_vars => [Signed => Promise]_vars
  <2> SUFFICES ASSUME TypeOK, Honest, Next, Signed PROVE Promise
    BY DEF vars
  <2>1. ~Ready /\ (sign_message_ok \/ sign_message_hash_ok)
    BY OnlyApprovalSigns
  <2>2. sign_message_hash_ok
    <3> SUFFICES ASSUME sign_message_ok PROVE FALSE
      BY <2>1
    <3>1. \/ \E key, data : response' = Signature("message signature", key, data)
          \/ response' = Error("DERIVATION")
      BY Zenon DEF sign_message_ok, Respond
    <3>2. CASE \E key, data : response' = Signature("message signature", key, data)
      <4>1. PICK key, data : response' = Signature("message signature", key, data)
        BY <3>2
      <4>2. response'.gives = "message signature"
        BY <4>1 DEF Signature
      <4> QED
        BY <4>2
    <3>3. CASE response' = Error("DERIVATION")
      BY <3>3 DEF Error
    <3> QED
      BY <3>1, <3>2, <3>3
  <2>3. /\ N_data.sign_hash_type = "ON"
        /\ u.member = "sign_msg_hash"
        /\ screen.text = u.value.hash_to_sign
    BY <2>1, <2>2 DEF Honest, HashPrompted, sign_message_hash_ok
  <2>4. sign_msg_hash = {u.value}
    BY <2>3 DEF sign_msg_hash, Read
  <2>5. \/ /\ MayDerive(u.value.key)
           /\ response' = Signature("hash signature", u.value.key, u.value.hash_to_sign)
        \/ response' = Error("DERIVATION")
    BY <2>2, <2>4, Zenon DEF sign_message_hash_ok, Respond
  <2>6. /\ MayDerive(u.value.key)
        /\ response'.key = u.value.key /\ response'.data = u.value.hash_to_sign
    <3>1. Error("DERIVATION").gives # "hash signature"
      BY DEF Error
    <3>2. response' = Signature("hash signature", u.value.key, u.value.hash_to_sign) /\ MayDerive(u.value.key)
      BY <2>5, <3>1, Zenon
    <3> QED
      BY <3>2 DEF Signature
  <2>7. session.kind = "sign_msg_hash" => session.key \in Keys /\ u.value.key = session.key
    <3>1. session.key \in Paths \cup {NoKey}
      BY DEF TypeOK, Sessions
    <3>2. session.kind = "sign_msg_hash" => u.value.key = session.key
      BY DEF Honest, HashSession
    <3> QED
      BY <2>6, <3>1, <3>2, PathsAssumption DEF MayDerive, Paths
  <2> QED
    BY <2>3, <2>6, <2>7
<1> QED
  BY <1>1, TypeInit, TypeNext, HonestInit, HonestNext, PTL DEF Spec, HashSignatureHonest
-----------------------------------------------------------------------------
\* What keeps a refused transaction from coming back.

\* A refusal leaves a mark that no later packet takes away, one without a mark
\* that is complete could still be shown, and a valid one that is not on the
\* screen never gets there.
Marked(s, refused) ==
    /\ refused => s.hard_reject \/ (s.unsafe /\ s.parse = "complete")
    /\ s.is_valid => s.parse = "complete" /\ s.tag # "presentable"
    /\ s.parse = "complete" /\ ~s.unsafe => s.tag = "presentable"

Clean(s) == s.parse = "complete" /\ ~s.unsafe /\ ~s.hard_reject

\* In the session of a transaction no other command has disturbed.
RefusalKept ==
    session.kind = "sign" =>
        /\ u.member = "sign"
        /\ Ready => Marked(u.value, session.refused)
        /\ ~Ready => screen = TransactionPrompt /\ ~session.refused /\ Clean(u.value)

\* The app starts without a transaction.
LEMMA RefusalInit == Init => RefusalKept
BY DEF Init, RefusalKept, NothingTold, Told

\* What a packet makes of a transaction that may still be shown.
LEMMA ParseMarks ==
    ASSUME NEW s0 \in Signs, NEW refused \in BOOLEAN, Marked(s0, refused), ~s0.hard_reject,
           NEW result \in Parse(s0)
    PROVE  /\ result[2] \in Signs
           /\ ~refused \/ result = <<"COMPLETE", s0>>
           /\ Marked(result[2], refused)
           /\ result[1] = "COMPLETE" => result[2].parse = "complete"
<1>1. \A rv \in {"INCOMPLETE", "COMPLETE"}, unsafe \in BOOLEAN, hard_reject \in BOOLEAN :
          s0.parse # "complete" =>
              /\ Marked(Parsed(s0, rv, unsafe, hard_reject), refused)
              /\ rv = "COMPLETE" => Parsed(s0, rv, unsafe, hard_reject).parse = "complete"
  BY DEF Parsed, Marked, Signs
<1> HIDE DEF Parsed
<1>2. refused => s0.parse = "complete"
  BY DEF Marked
<1>3. CASE s0.parse = "complete"
  BY <1>3, ParseTyped DEF Parse
<1>4. CASE s0.parse # "complete"
  <2>1. CASE result = <<"REJECT", s0>>
    BY <1>2, <1>4, <2>1
  <2>2. CASE result # <<"REJECT", s0>>
    <3>1. PICK rv \in {"INCOMPLETE", "COMPLETE"}, unsafe \in BOOLEAN, hard_reject \in BOOLEAN :
              result = <<rv, Parsed(s0, rv, unsafe, hard_reject)>>
      BY <1>4, <2>2 DEF Parse
    <3> QED
      BY <1>1, <1>2, <1>4, <3>1, ParseTyped
  <2> QED
    BY <2>1, <2>2
<1> QED
  BY <1>3, <1>4

\* A packet handed to the parser in such a session.
LEMMA RefusalSignPacket ==
    ASSUME TypeOK, Ready, NEW s0 \in Signs, NEW told \in Sessions, told.kind = "sign",
           Marked(s0, told.refused), NEW last \in BOOLEAN, NEW secure_only \in BOOLEAN,
           SignPacket(s0, told, last, secure_only)
    PROVE  RefusalKept'
<1>1. [told EXCEPT !.refused = TRUE].refused = TRUE
  BY DEF Sessions
<1>2. ASSUME NEW s \in Signs, NEW status, Refused(s, told, status), Marked(s, TRUE)
      PROVE  RefusalKept'
  <2>1. Ready' /\ u'.member = "sign" /\ u'.value = s /\ session'.refused = TRUE
    BY <1>1, <1>2, Replied DEF Refused, Write
  <2> QED
    BY <1>2, <2>1 DEF RefusalKept
<1>3. CASE s0.hard_reject
  <2>1. Refused(s0, told, "PARSE_ERROR")
    BY <1>3 DEF SignPacket
  <2>2. Marked(s0, TRUE)
    BY <1>3 DEF Marked
  <2> QED
    BY <1>2, <2>1, <2>2
<1>4. CASE ~s0.hard_reject
  <2>1. PICK result \in Parse(s0) :
            LET rv == result[1]
                s == result[2]
                valid == [s EXCEPT !.tag = IF s.unsafe THEN "NONE" ELSE @, !.is_valid = TRUE]
            IN IF rv # (IF last THEN "COMPLETE" ELSE "INCOMPLETE") \/ (last /\ s.hard_reject)
               THEN Refused(HardReject(s), told, "PARSE_ERROR")
               ELSE IF ~last
               THEN Write("sign", s) /\ Reply(Ok) /\ session' = told
               ELSE IF s.unsafe /\ secure_only
               THEN Refused(s, told, "SECURITY")
               ELSE Write("sign", valid) /\ sign_complete(valid, told)
    BY <1>4 DEF SignPacket
  <2> DEFINE rv == result[1]
             s == result[2]
             valid == [s EXCEPT !.tag = IF s.unsafe THEN "NONE" ELSE @, !.is_valid = TRUE]
             Failed == rv # (IF last THEN "COMPLETE" ELSE "INCOMPLETE") \/ (last /\ s.hard_reject)
  <2>2. told.refused \in BOOLEAN
    BY DEF Sessions
  <2>3. /\ s \in Signs
        /\ ~told.refused \/ s = s0
        /\ Marked(s, told.refused)
        /\ rv = "COMPLETE" => s.parse = "complete"
    BY <1>4, <2>2, ParseMarks
  <2>4. CASE Failed
    <3>1. Refused(HardReject(s), told, "PARSE_ERROR")
      BY <2>1, <2>4
    <3>2. HardReject(s) \in Signs /\ Marked(HardReject(s), TRUE)
      BY <2>3 DEF HardReject, Signs, Marked
    <3> QED
      BY <1>2, <3>1, <3>2
  <2>5. CASE ~Failed /\ ~last
    <3>1. Write("sign", s) /\ Reply(Ok) /\ session' = told
      BY <2>1, <2>5
    <3>2. Ready' /\ u'.member = "sign" /\ u'.value = s
      BY <3>1, Replied DEF Write
    <3> QED
      BY <2>3, <3>1, <3>2 DEF RefusalKept
  <2>6. CASE ~Failed /\ last /\ s.unsafe /\ secure_only
    <3>1. Refused(s, told, "SECURITY")
      BY <2>1, <2>6
    <3>2. Marked(s, TRUE)
      BY <2>3, <2>6 DEF Marked
    <3> QED
      BY <1>2, <2>3, <3>1, <3>2
  <2>7. CASE ~Failed /\ last /\ ~(s.unsafe /\ secure_only)
    <3>1. Write("sign", valid) /\ sign_complete(valid, told)
      BY <2>1, <2>7
    <3>2. /\ s.parse = "complete" /\ valid.parse = "complete"
          /\ valid.unsafe = s.unsafe
          /\ valid.hard_reject = s.hard_reject
          /\ valid.tag = IF s.unsafe THEN "NONE" ELSE s.tag
      BY <2>3, <2>7 DEF Signs
    <3>3. s.unsafe \in BOOLEAN /\ s.hard_reject \in BOOLEAN /\ ~s.hard_reject
      BY <2>3, <2>7 DEF Signs
    <3> HIDE DEF valid, Failed, rv
    <3>4. u'.member = "sign" /\ u'.value = valid
      BY <3>1 DEF Write
    <3>5. CASE s.unsafe
      <4>1. valid.tag # "presentable"
        BY <3>2, <3>5
      <4>2. Ready' /\ session' = [told EXCEPT !.refused = TRUE]
        BY <3>1, <4>1, Replied DEF sign_complete
      <4>3. Marked(valid, TRUE)
        BY <3>2, <3>5, <4>1 DEF Marked
      <4> QED
        BY <1>1, <3>4, <4>2, <4>3 DEF RefusalKept
    <3>6. CASE ~s.unsafe
      <4>1. valid.tag = "presentable" /\ Clean(valid) /\ ~told.refused
        BY <2>3, <3>2, <3>3, <3>6 DEF Marked, Clean
      <4>2. screen' = TransactionPrompt /\ session' = told
        BY <3>1, <4>1 DEF sign_complete, ui_prompt
      <4>3. ~Ready'
        BY <3>1, <4>1, Replied DEF sign_complete
      <4> QED
        BY <3>4, <4>1, <4>2, <4>3 DEF RefusalKept
    <3> QED
      BY <3>5, <3>6
  <2> QED
    BY <2>4, <2>5, <2>6, <2>7
<1> QED
  BY <1>3, <1>4
\* A packet with any p1.
LEMMA RefusalSign ==
    ASSUME TypeOK, Honest, RefusalKept, NEW p1 \in {"FIRST", "NEXT", "other"},
           NEW last \in BOOLEAN, NEW secure_only \in BOOLEAN,
           Sign(p1, last, secure_only)
    PROVE  RefusalKept'
<1>1. Ready
  BY DEF Sign
<1>2. /\ Told("sign", NoKey, FALSE).refused = FALSE
      /\ Told("sign", NoKey, FALSE).kind = "sign"
      /\ Disturbed.kind = "disturbed"
  BY DEF Told, Disturbed
<1>3. /\ ZeroSign \in Signs /\ Marked(ZeroSign, FALSE)
      /\ Told("sign", NoKey, FALSE) \in Sessions /\ Continued("sign") \in Sessions
  BY SessionsTyped DEF TypeOK, ZeroSign, Signs, SessionKinds, Marked
<1>4. CASE p1 = "FIRST"
  <2>1. SignPacket(ZeroSign, Told("sign", NoKey, FALSE), last, secure_only)
    BY <1>4 DEF Sign
  <2> QED
    BY <1>1, <1>2, <1>3, <2>1, RefusalSignPacket
\* What a later packet goes on from, if it goes on from a transaction.
<1>5. Continued("sign").kind = "sign" =>
         \A s \in sign : s \in Signs /\ Marked(s, Continued("sign").refused)
  <2>1. CASE session.kind = "sign"
    <3>1. Continued("sign") = session
      BY <2>1 DEF Continued
    <3>2. sign = {u.value} /\ Marked(u.value, session.refused)
      BY <1>1, <2>1 DEF RefusalKept, sign, Read
    <3>3. sign \subseteq Signs
      BY ReadTyped DEF TypeOK
    <3> QED
      BY <3>1, <3>2, <3>3
  <2>2. CASE session.kind = "cleared"
    <3>1. Continued("sign") = Told("sign", NoKey, FALSE)
      BY <2>2 DEF Continued
    <3>2. sign = {ZeroSign}
      <4>1. u = Zeroed
        BY <2>2 DEF Honest, ClearedSession
      <4>2. u.member # "sign"
        BY <4>1 DEF Zeroed
      <4> QED
        BY <4>1, <4>2 DEF sign, Read
    <3> QED
      BY <1>2, <1>3, <3>1, <3>2
  <2>3. CASE session.kind \notin {"sign", "cleared"}
    <3>1. Continued("sign") = Disturbed
      BY <2>3 DEF Continued
    <3> QED
      BY <1>2, <3>1
  <2> QED
    BY <2>1, <2>2, <2>3
<1>6. CASE Continued("sign").kind # "sign"
  <2>1. [Continued("sign") EXCEPT !.refused = TRUE].kind = Continued("sign").kind
    BY <1>3 DEF Sessions
  <2>2. p1 # "FIRST" => session' \in {Continued("sign"), [Continued("sign") EXCEPT !.refused = TRUE]}
    <3>1. ASSUME NEW s, sign_complete(s, Continued("sign"))
          PROVE  session' \in {Continued("sign"), [Continued("sign") EXCEPT !.refused = TRUE]}
      BY <3>1 DEF sign_complete
    <3>2. ASSUME NEW s, SignPacket(s, Continued("sign"), last, secure_only)
          PROVE  session' \in {Continued("sign"), [Continued("sign") EXCEPT !.refused = TRUE]}
      BY <3>1, <3>2 DEF SignPacket, Refused
    <3> QED
      BY <3>1, <3>2 DEF Sign
  <2> QED
    BY <1>4, <1>6, <2>1, <2>2 DEF RefusalKept
<1>7. CASE Continued("sign").kind = "sign" /\ p1 = "NEXT"
  <2>1. PICK s \in sign : SignPacket(s, Continued("sign"), last, secure_only)
    BY <1>7 DEF Sign
  <2> QED
    BY <1>1, <1>3, <1>5, <1>7, <2>1, RefusalSignPacket
\* Without the parser: what is valid has been turned down.
<1>8. CASE Continued("sign").kind = "sign" /\ p1 = "other"
  <2>1. PICK s \in sign :
            /\ Write("sign", s)
            /\ IF last /\ s.is_valid
               THEN sign_complete(s, Continued("sign"))
               ELSE Reply(Ok) /\ session' = Continued("sign")
    BY <1>8 DEF Sign
  <2>2. s \in Signs /\ Marked(s, Continued("sign").refused)
    BY <1>5, <1>8, <2>1
  <2>3. u'.member = "sign" /\ u'.value = s
    BY <2>1 DEF Write
  <2>4. CASE last /\ s.is_valid
    <3>1. s.tag # "presentable" /\ s.parse = "complete"
      BY <2>2, <2>4 DEF Marked
    <3>2. Ready' /\ session' = [Continued("sign") EXCEPT !.refused = TRUE]
      BY <2>1, <2>4, <3>1, Replied DEF sign_complete
    <3>3. s.unsafe \in BOOLEAN
      BY <2>2 DEF Signs
    <3>4. Marked(s, TRUE)
      BY <2>2, <3>1, <3>3 DEF Marked
    <3>5. [Continued("sign") EXCEPT !.refused = TRUE].refused = TRUE
      BY <1>3 DEF Sessions
    <3> QED
      BY <2>3, <3>2, <3>4, <3>5 DEF RefusalKept
  <2>5. CASE ~(last /\ s.is_valid)
    <3>1. Ready' /\ session' = Continued("sign")
      BY <2>1, <2>5, Replied
    <3> QED
      BY <2>2, <2>3, <3>1 DEF RefusalKept
  <2> QED
    BY <2>4, <2>5
<1> QED
  BY <1>4, <1>6, <1>7, <1>8

\* Commands that are not about transactions leave the session alone or begin
\* one of another kind.
LEMMA RefusalElsewhere ==
    ASSUME RefusalKept,
           \/ UNCHANGED <<u, session>> /\ Ready /\ Ready'
           \/ UNCHANGED <<u, session, screen, response>>
           \/ session'.kind # "sign"
    PROVE  RefusalKept'
BY DEF RefusalKept, Ready

\* A continued session of another kind is not one of a transaction.
LEMMA ContinuedElsewhere ==
    ASSUME TypeOK, NEW kind \in {"sign_msg", "sign_msg_hash"}, NEW packets
    PROVE  /\ Continued(kind).kind # "sign"
           /\ [Continued(kind) EXCEPT !.packets = packets].kind # "sign"
           /\ [Continued(kind) EXCEPT !.refused = TRUE].kind # "sign"
<1>1. Continued(kind) \in Sessions
  BY SessionsTyped DEF TypeOK, SessionKinds
<1>2. /\ [Continued(kind) EXCEPT !.packets = packets].kind = Continued(kind).kind
      /\ [Continued(kind) EXCEPT !.refused = TRUE].kind = Continued(kind).kind
  BY <1>1 DEF Sessions
<1>3. Continued(kind).kind # "sign"
  <2>1. \/ session.kind = kind /\ Continued(kind) = session
        \/ Continued(kind) = Told(kind, NoKey, FALSE)
        \/ Continued(kind) = Disturbed
    BY Zenon DEF Continued
  <2> QED
    BY <2>1 DEF Told, Disturbed
<1> QED
  BY <1>2, <1>3
\* Commands of all other kinds.
LEMMA RefusalOthers ==
    ASSUME TypeOK, RefusalKept,
           \/ Undispatched \/ Information \/ TooLong \/ SignMessageOther \/ SignMessageHashOther
           \/ \E p1 \in {"no prompt", "verify", "other"}, path \in Paths \cup {Malformed} :
                  GetPublicKey(p1, path)
           \/ \E valid \in BOOLEAN, path \in Keys : AccountImport(valid, path)
           \/ \E empty, as_hex \in BOOLEAN, path \in Paths \cup {Malformed} :
                  SignMessageFirst(empty, as_hex, path)
           \/ \E p \in Packets, last \in BOOLEAN : SignMessageNext(p, last)
           \/ \E path \in Paths \cup {Malformed} : SignMessageHashFirst(path)
           \/ \E too_long \in BOOLEAN, hash \in Hashes : SignMessageHashLast(too_long, hash)
           \/ SwitchSetting \/ Restart
    PROVE  RefusalKept'
<1>1. CASE \/ Undispatched \/ Information \/ TooLong \/ SignMessageOther \/ SignMessageHashOther
           \/ SwitchSetting
  <2>1. \/ UNCHANGED <<u, session>> /\ Ready /\ Ready'
        \/ UNCHANGED <<u, session, screen, response>>
    BY <1>1, Replied DEF Undispatched, Information, TooLong, SignMessageOther, SignMessageHashOther,
                         SwitchSetting
  <2> QED
    BY <2>1, RefusalElsewhere
<1>2. CASE \E p1 \in {"no prompt", "verify", "other"}, path \in Paths \cup {Malformed} :
              GetPublicKey(p1, path)
  <2>1. (UNCHANGED <<u, session>> /\ Ready /\ Ready') \/ session' = Disturbed
    BY <1>2, Replied DEF GetPublicKey
  <2> QED
    BY <2>1, Beginnings, RefusalElsewhere
<1>3. CASE \E valid \in BOOLEAN, path \in Keys : AccountImport(valid, path)
  <2>1. (UNCHANGED <<u, session>> /\ Ready /\ Ready') \/ session' = Disturbed
    BY <1>3, Replied DEF AccountImport
  <2> QED
    BY <2>1, Beginnings, RefusalElsewhere
<1>4. CASE \E empty, as_hex \in BOOLEAN, path \in Paths \cup {Malformed} :
              SignMessageFirst(empty, as_hex, path)
  <2>1. PICK key, as_hex : session' = Told("sign_msg", key, as_hex)
    BY <1>4, Zenon DEF SignMessageFirst
  <2>2. session'.kind = "sign_msg"
    BY <2>1 DEF Told
  <2> QED
    BY <2>2, RefusalElsewhere
<1>5. CASE \E p \in Packets, last \in BOOLEAN : SignMessageNext(p, last)
  <2>1. PICK p \in Packets, last \in BOOLEAN : SignMessageNext(p, last)
    BY <1>5
  <2>2. \/ UNCHANGED <<u, session>> /\ Ready /\ Ready'
        \/ session' = [Continued("sign_msg") EXCEPT !.refused = TRUE]
        \/ session' = [Continued("sign_msg") EXCEPT !.packets = Append(@, p)]
    BY <2>1, Replied DEF SignMessageNext
  <2> QED
    BY <2>2, ContinuedElsewhere, RefusalElsewhere
<1>6. CASE \E path \in Paths \cup {Malformed} : SignMessageHashFirst(path)
  <2>1. (UNCHANGED <<u, session>> /\ Ready /\ Ready') \/ \E key : session' = Told("sign_msg_hash", key, FALSE)
    BY <1>6, Replied, Zenon DEF SignMessageHashFirst
  <2>2. CASE UNCHANGED <<u, session>> /\ Ready /\ Ready'
    BY <2>2, RefusalElsewhere
  <2>3. CASE \E key : session' = Told("sign_msg_hash", key, FALSE)
    <3>1. PICK key : session' = Told("sign_msg_hash", key, FALSE)
      BY <2>3
    <3>2. session'.kind = "sign_msg_hash"
      BY <3>1 DEF Told
    <3> QED
      BY <3>2, RefusalElsewhere
  <2> QED
    BY <2>1, <2>2, <2>3
<1>7. CASE \E too_long \in BOOLEAN, hash \in Hashes : SignMessageHashLast(too_long, hash)
  <2>1. PICK too_long \in BOOLEAN, hash \in Hashes : SignMessageHashLast(too_long, hash)
    BY <1>7
  <2>2. \/ UNCHANGED <<u, session>> /\ Ready /\ Ready'
        \/ session' = [Continued("sign_msg_hash") EXCEPT !.packets = <<hash>>]
    BY <2>1, Replied DEF SignMessageHashLast
  <2> QED
    BY <2>2, ContinuedElsewhere, RefusalElsewhere
<1>8. CASE Restart
  <2>1. session' = NothingTold
    BY <1>8 DEF Restart
  <2> QED
    BY <2>1, Beginnings, RefusalElsewhere
<1> QED
  BY <1>1, <1>2, <1>3, <1>4, <1>5, <1>6, <1>7, <1>8

\* The answer to the prompt of a transaction clears it.
LEMMA RefusalAnswer == TypeOK /\ RefusalKept /\ (Approve \/ Reject) => RefusalKept'
<1> SUFFICES ASSUME TypeOK, RefusalKept, Approve \/ Reject PROVE RefusalKept'
  OBVIOUS
<1>1. Ready' /\ screen # Idle
  BY AnswerResponds DEF Approve, Reject
<1>2. CASE session.kind = "sign" /\ ~Ready
  <2>1. screen.ok = "sign_ok" /\ screen.cxl = "sign_reject"
    BY <1>2 DEF RefusalKept, TransactionPrompt
  <2>2. session' = NothingTold
    BY <2>1 DEF Approve, Reject, pubkey_ok, sign_ok, sign_message_ok, sign_message_hash_ok
  <2> QED
    BY <2>2, Beginnings, RefusalElsewhere
<1>3. CASE session.kind # "sign" \/ Ready
  <2>1. \/ UNCHANGED <<u, session>>
        \/ session' = NothingTold
        \/ session' = Told("sign_msg", NoKey, FALSE)
        \/ session' = Told("sign_msg_hash", NoKey, FALSE)
    BY DEF Approve, Reject, pubkey_ok, sign_ok, sign_message_ok, sign_message_hash_ok
  <2>2. session'.kind # "sign" \/ (UNCHANGED <<u, session>> /\ Ready)
    BY <1>3, <2>1 DEF NothingTold, Told
  <2> QED
    BY <1>1, <2>2, RefusalElsewhere
<1> QED
  BY <1>2, <1>3

\* Every step keeps the marks.
LEMMA RefusalNext == TypeOK /\ Honest /\ RefusalKept /\ [Next]_vars => RefusalKept'
<1> SUFFICES ASSUME TypeOK, Honest, RefusalKept, [Next]_vars PROVE RefusalKept'
  OBVIOUS
<1>1. CASE \E p1 \in {"FIRST", "NEXT", "other"}, last, secure_only \in BOOLEAN :
              Sign(p1, last, secure_only)
  BY <1>1, RefusalSign
<1>2. CASE Approve \/ Reject
  BY <1>2, RefusalAnswer
<1>3. CASE UNCHANGED vars
  BY <1>3, RefusalElsewhere DEF vars
<1> QED
  BY <1>1, <1>2, <1>3, RefusalOthers, Zenon DEF Next, Command, User

\* Once a packet of a transaction is refused, none brings it to the screen, and
\* what is there was parsed to its end and not rejected.
THEOREM RefusedStaysRefused == Spec => []ReviewOfAcceptedOnly
<1>1. TypeOK /\ RefusalKept => ReviewOfAcceptedOnly
  <2> SUFFICES ASSUME TypeOK, RefusalKept, screen.kind = "Transaction", session.kind = "sign"
               PROVE  /\ ~session.refused
                      /\ \A s \in sign : s.parse = "complete" /\ ~s.unsafe /\ ~s.hard_reject
    BY DEF ReviewOfAcceptedOnly
  <2>1. ~Ready
    <3>1. Idle.kind = "idle"
      BY DEF Idle
    <3>2. \A p \in MessagePrompts \cup MessageHashPrompts : p.kind \in {"Message", "Message Hash"}
      BY DEF MessagePrompts, MessageHashPrompts
    <3> QED
      BY <3>1, <3>2 DEF TypeOK, Answered
  <2>2. u.member = "sign" /\ ~session.refused /\ Clean(u.value)
    BY <2>1 DEF RefusalKept
  <2>3. sign = {u.value}
    BY <2>2 DEF sign, Read
  <2> QED
    BY <2>2, <2>3 DEF Clean
<1> QED
  BY <1>1, TypeInit, TypeNext, HonestInit, HonestNext, RefusalInit, RefusalNext, PTL DEF Spec
=============================================================================
