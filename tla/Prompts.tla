------------------------------- MODULE Prompts -------------------------------
(***************************************************************************)
(* Prompts on the screen (ui_common.c, ui_bagl.c, ui_nbgl.c): a handler      *)
(* registers a function for each row and hands over the labels and the two   *)
(* answers; the rows are written into one buffer when the user comes to      *)
(* them.  What another prompt has registered stays where it is.  Devices     *)
(* with buttons (BAGL) walk through fixed screens, those with a touch screen *)
(* (NBGL) turn pages of several rows; the SDK calls the app for both.        *)
(*                                                                         *)
(* A row here is the function that writes it and what it is given; the text  *)
(* it leaves is in RowText.                                                  *)
(***************************************************************************)
EXTENDS Integers, Sequences

CONSTANTS
    MAX_SCREEN_COUNT,   \* 8
    Requests,           \* what commands ask the user: a kind and the data of it
    PairsPerPage,       \* rows the SDK puts on a page
    MaxRequests,        \* bound on the requests of a behaviour
    MaxSwitches         \* bound on the switches of settings

Kinds == {"Public Key", "Extended Public Key", "Account", "Message", "Message Hash",
          "Transaction", "Transaction (outputs)", "Self-Transfer", "Multi-Input Transaction",
          "Deposit", "Prepare", "Withdrawal"}

\* There is a screen for each row; MAX_OUTPUTS rows and three fit.
ASSUME ScreensAssumption == MAX_SCREEN_COUNT \in Nat /\ MAX_SCREEN_COUNT >= 6
ASSUME PageAssumption == PairsPerPage \in Nat \ {0}
ASSUME RequestsAssumption ==
    \A r \in Requests :
        /\ r.kind \in Kinds
        /\ r.kind = "Transaction (outputs)" =>
                /\ Len(r.data.outputs) \in 0 .. MAX_SCREEN_COUNT - 3
                /\ DOMAIN r.data.outputs = 1 .. Len(r.data.outputs)

VARIABLES
    display,            \* the kind of device, for which the app is built
    N_data,             \* the settings and their texts in the menu
    switches,           \* NBGL's switches of the settings page
    memory,             \* global.apdu.u: the data of the rows
    ui,                 \* global.ui, and NBGL's copies of the rows
    screen,             \* the flow or page on the screen
    request, seen, answer,  \* history: the request, the titles shown for it, the callback called
    requests, switched      \* how many so far

history == <<request, seen, answer>>
vars == <<display, N_data, switches, memory, ui, screen, history, requests, switched>>

Screens == 0 .. MAX_SCREEN_COUNT - 1

\* A request of no kind, where there is none yet.
NoRequest == [kind |-> "none", data |-> [none |-> 0]]

-----------------------------------------------------------------------------
\* The functions that write a row.

\* A row that is written: the function and its argument, which it reads where the
\* registered pointer leads now.
Text(callback, argument) == <<callback, argument>>
Thrown == <<"thrown">>

Pointed(data, pointer) ==
    IF pointer = "amount.snd" THEN data.amount.snd
    ELSE IF pointer = "outputs[0].destination" THEN data.outputs[1].destination
    ELSE data[pointer]

\* string_generation_callback; the pointer of copy_string is the text.
Generate(callback, data, pointer) ==
    IF callback = "copy_string" THEN Text(callback, pointer)
    ELSE Text(callback, Pointed(data, pointer))

Active(g, title, text) == [g EXCEPT !.active_prompt = title, !.active_value = text]

\* A screen no function is registered for throws, as does one beyond the last.
NULL == "NULL"
switch_screen(g, data, which) ==
    IF which \notin Screens \/ which >= Len(g.prompts) \/ g.callbacks[which] = NULL
    THEN Active(g, Thrown, Thrown)
    ELSE Active(g, <<g.prompts[which + 1]>>,
                Generate(g.callbacks[which], data, g.callback_data[which]))

\* The review of several outputs writes its own rows.
DestinationCallback(output) == IF output.is_multisig THEN "multisig_address" ELSE "sighash_address"
OutputTitle(n, output_count) == <<"Output", n, output_count>>
OutputRow(output) ==
    <<"output", output.capacity, Text(DestinationCallback(output), output.destination)>>

multi_output_prompts_cb(g, data, which) ==
    CASE which = 0 -> Active(g, <<"Confirm">>, Text("copy_string", "Transaction"))
      [] which = 1 -> Active(g, <<"Amount">>, Text("frac_ckb_to_string", data.amount.snd))
      [] which = 2 -> Active(g, <<"Fee">>, Text("frac_ckb_to_string", data.total_fee))
      [] OTHER -> Active(g, OutputTitle(which - 2, Len(data.outputs)), OutputRow(data.outputs[which - 2]))

Show(g, data, which) ==
    IF g.switch_screen = "switch_screen" THEN switch_screen(g, data, which)
    ELSE multi_output_prompts_cb(g, data, which)
Threw(g) == g.active_value = Thrown

\* Rows are written in order, up to one that throws; the last stays in the buffer.
Written(g, data, rows) == {n \in rows : \A m \in rows : m < n => ~Threw(Show(g, data, m))}
Last(rows) == CHOOSE n \in rows : \A m \in rows : m <= n

-----------------------------------------------------------------------------
\* The prompts of the handlers: labels, rows, answers.

Static(text) == <<"copy_string", text>>
Row(callback, pointer) == <<callback, pointer>>
Prompt(labels, rows, ok_callback, cxl_callback) ==
    [labels |-> labels, rows |-> rows, ok |-> ok_callback, cxl |-> cxl_callback]

Owner == Row("sighash_address", "dao_cell_owner")
Capacity(pointer) == Row("frac_ckb_to_string", pointer)
Destination(data) == Row(DestinationCallback(data.outputs[1]), "outputs[0].destination")

PublicKeyPrompt(kind) ==
    CASE kind = "Public Key" ->
            Prompt(<<"Address">>, <<Row("sighash_address", "render_address_lock_arg")>>,
                   "pubkey_ok", "delay_reject")
      [] kind = "Extended Public Key" ->
            Prompt(<<"Provide", "Derivation Path", "Address">>,
                   <<Static("Extended Public Key"), Row("bip32_path_to_string", "key"),
                     Row("sighash_address", "render_address_lock_arg")>>,
                   "ext_pubkey_ok", "delay_reject")
      [] kind = "Account" ->
            Prompt(<<"Import">>, <<Static("Account")>>, "account_import_ok", "delay_reject")

MessagePrompt(kind, data) ==
    CASE kind = "Message" ->
            Prompt(<<"Sign", "Message: ">>,
                   <<Static("Message"),
                     Row(IF data.display_as_hex THEN "buffer_to_hex" ELSE "copy_buffer", "display_as_buffer")>>,
                   "sign_message_ok", "sign_reject")
      [] kind = "Message Hash" ->
            Prompt(<<"Sign", "Message Hash: ">>,
                   <<Static("Message Hash"), Row("buffer_to_hex", "display_as_buffer")>>,
                   "sign_message_hash_ok", "sign_reject")

TransactionPrompt(kind, data) ==
    LET tx(labels, rows) == Prompt(labels, rows, "sign_ok", "sign_reject")
    IN CASE kind = "Transaction" ->
                IF N_data.contract_data_type = "ALLOW"
                THEN tx(<<"Confirm", "Amount", "Fee", "Destination", "Contract">>,
                        <<Static("Transaction"), Capacity("amount.snd"), Capacity("total_fee"),
                          Destination(data), Row("contract_type_to_string", "contract_type")>>)
                ELSE tx(<<"Confirm", "Amount", "Fee", "Destination">>,
                        <<Static("Transaction"), Capacity("amount.snd"), Capacity("total_fee"),
                          Destination(data)>>)
         [] kind = "Self-Transfer" ->
                tx(<<"Confirm", "Amount", "Fee", "Destination">>,
                   <<Static("Self-Transfer"), Capacity("amount.snd"), Capacity("total_fee"), Destination(data)>>)
         [] kind = "Multi-Input Transaction" ->
                tx(<<"Confirm", "Input", "Source", "Amount", "Fee", "Destination">>,
                   <<Static("Multi-Input Transaction"), Row("uint64_tuple_to_string", "input_count"),
                     Row("sighash_address", "current_lock_arg"), Row("frac_ckb_tuple_to_string", "amount"),
                     Capacity("total_fee"), Destination(data)>>)
         [] kind = "Deposit" ->
                tx(<<"Confirm DAO", "Deposit Amount", "Fee", "Cell Owner">>,
                   <<Static("Deposit"), Capacity("dao_amount"), Capacity("total_fee"), Owner>>)
         [] kind = "Prepare" ->
                tx(<<"Confirm DAO", "Deposit Amount", "Fee", "Cell Owner">>,
                   <<Static("Prepare"), Capacity("dao_amount"), Capacity("total_fee"), Owner>>)
         [] kind = "Withdrawal" ->
                tx(<<"Confirm DAO", "Deposit Amount", "Compensation", "Cell Owner">>,
                   <<Static("Withdrawal"), Capacity("dao_amount"), Capacity("total_fee"), Owner>>)

PromptOf(r) ==
    IF r.kind \in {"Public Key", "Extended Public Key", "Account"} THEN PublicKeyPrompt(r.kind)
    ELSE IF r.kind \in {"Message", "Message Hash"} THEN MessagePrompt(r.kind, r.data)
    ELSE TransactionPrompt(r.kind, r.data)

\* Only the rows of the prompt are registered anew.
Registered_AllButLast(w, rows) == w < Len(rows) - 1
Registered(w, rows) == w < Len(rows)

register_ui_callbacks(g, rows) ==
    [g EXCEPT
        !.callbacks = [w \in Screens |-> IF Registered(w, rows) THEN rows[w + 1][1] ELSE @[w]],
        !.callback_data = [w \in Screens |-> IF Registered(w, rows) THEN rows[w + 1][2] ELSE @[w]]]

-----------------------------------------------------------------------------
\* Putting a prompt on the screen.

Menu == [flow |-> "menu", step |-> 0]
Ready == screen.flow \in {"menu", "config", "status"}

RejectStep == MAX_SCREEN_COUNT
AcceptStep == MAX_SCREEN_COUNT + 1

\* BAGL writes every row once before the first is shown, with a button each for
\* the answers behind the last.
Offset_AfterFirst(screen_count) == MAX_SCREEN_COUNT - screen_count + 1
Offset(screen_count) == MAX_SCREEN_COUNT - screen_count

Debugged(g, data, screen_count) == Show(g, data, Last(Written(g, data, 0 .. screen_count - 1)))

\* The host is told of an error, and what is on the screen stays there.
Throws(g, before) == ui' = g /\ UNCHANGED screen /\ seen' = before

ShowStep(g, data, step, before) ==
    LET shown == Show(g, data, step - g.offset)
    IN /\ ui' = shown
       /\ screen' = [flow |-> "prompts", step |-> step]
       /\ seen' = before \cup {shown.active_prompt}

\* NBGL asks for the rows of a page one after the other and shows them together:
\* each is copied from the one buffer to a buffer of its own.
Buffer_Shared(index) == 0
Buffer(index) == index

get_pair(g, data, written) ==
    LET row(n) == Show(g, data, n)
        copied == {n \in written : ~Threw(row(n))}
        copies(w) == {n \in copied : Buffer(n) = w}
    IN [row(Last(written)) EXCEPT
            !.tag = [w \in Screens |-> IF copies(w) = {} THEN g.tag[w] ELSE row(Last(copies(w))).active_prompt],
            !.value = [w \in Screens |-> IF copies(w) = {} THEN g.value[w] ELSE row(Last(copies(w))).active_value]]

Page(first, rows) == {n \in first .. first + PairsPerPage - 1 : n < rows}

ShowPage(g, data, first, rows, before) ==
    LET page == Page(first, rows)
        shown == get_pair(g, data, Written(g, data, page))
    IN IF Threw(shown)
       THEN Throws(shown, before)
       ELSE /\ ui' = shown
            /\ screen' = [flow |-> "review", step |-> first]
            /\ seen' = before \cup {shown.tag[Buffer(n)] : n \in page}

\* The flow of BAGL has room for so many.
TooMany_AtLimit(screen_count) == screen_count >= MAX_SCREEN_COUNT
TooMany(screen_count) == screen_count > MAX_SCREEN_COUNT

ui_prompt_with_cb(g, data, screen_count, ok_callback, cxl_callback) ==
    LET placed == [g EXCEPT !.offset = Offset(screen_count)]
        answers(h) == [h EXCEPT !.ok_callback = ok_callback, !.cxl_callback = cxl_callback]
        debugged == Debugged(placed, data, screen_count)
    IN IF display = "NBGL"
       THEN ShowPage(answers(placed), data, 0, screen_count, {})
       ELSE IF TooMany(screen_count) THEN Throws(g, {})
       ELSE IF Threw(debugged) THEN Throws(debugged, {})
       ELSE ShowStep(answers(debugged), data, debugged.offset, {})

\* The review of several outputs has one row for each and three before them.
IsOutputs(r) == r.kind = "Transaction (outputs)"
RowCount(r) == IF IsOutputs(r) THEN 3 + Len(r.data.outputs) ELSE Len(PromptOf(r).labels)

\* A handler writes the data, registers the rows and hands over the labels.
Request(r) ==
    /\ Ready /\ requests < MaxRequests
    /\ memory' = r.data
    /\ IF IsOutputs(r)
       THEN ui_prompt_with_cb([ui EXCEPT !.switch_screen = "multi_output_prompts_cb"], r.data,
                              RowCount(r), "sign_ok", "sign_reject")
       ELSE LET p == PromptOf(r)
            IN ui_prompt_with_cb([register_ui_callbacks(ui, p.rows) EXCEPT
                                    !.prompts = p.labels, !.switch_screen = "switch_screen"],
                                 r.data, RowCount(r), p.ok, p.cxl)
    /\ request' = r /\ answer' = "none"
    /\ requests' = requests + 1
    /\ UNCHANGED <<display, N_data, switches, switched>>

-----------------------------------------------------------------------------
\* The user walks through the rows, forward and back.

Turn(step) ==
    /\ screen.flow = "prompts"
    /\ step \in {screen.step - 1, screen.step + 1} \cap (ui.offset .. AcceptStep)
    /\ IF step \in Screens
       THEN ShowStep(ui, memory, step, seen)
       ELSE screen' = [screen EXCEPT !.step = step] /\ UNCHANGED <<ui, seen>>
    /\ UNCHANGED <<display, N_data, switches, memory, request, answer, requests, switched>>

TurnPage(first) ==
    /\ screen.flow \in {"review", "confirm"}
    /\ first \in {screen.step - PairsPerPage, screen.step + PairsPerPage}
    /\ first >= 0 /\ first < RowCount(request) + PairsPerPage
    /\ IF first < RowCount(request)
       THEN ShowPage(ui, memory, first, RowCount(request), seen)
       ELSE screen' = [flow |-> "confirm", step |-> first] /\ UNCHANGED <<ui, seen>>
    /\ UNCHANGED <<display, N_data, switches, memory, request, answer, requests, switched>>

\* The callbacks of a signature or a refused one clear the data.
Cleared == [none |-> 0]
Answer(callback) ==
    /\ answer' = callback
    /\ memory' = IF callback \in {"pubkey_ok", "ext_pubkey_ok", "account_import_ok", "delay_reject"}
                 THEN memory ELSE Cleared

\* BAGL: the menu comes back and the callback is called.
prompt_response(accepted) ==
    /\ screen.flow = "prompts" /\ screen.step = IF accepted THEN AcceptStep ELSE RejectStep
    /\ screen' = Menu
    /\ Answer(IF accepted THEN ui.ok_callback ELSE ui.cxl_callback)
    /\ UNCHANGED <<display, N_data, switches, ui, request, seen, requests, switched>>

\* NBGL: the callback is called and the status comes for a while; the review may
\* be rejected on any page.
reviewChoice(confirm) ==
    /\ screen.flow \in IF confirm THEN {"confirm"} ELSE {"review", "confirm"}
    /\ Answer(IF confirm THEN ui.ok_callback ELSE ui.cxl_callback)
    /\ screen' = [flow |-> "status", step |-> 0]
    /\ UNCHANGED <<display, N_data, switches, ui, request, seen, requests, switched>>

-----------------------------------------------------------------------------
\* The menu and the settings.

Settings == 0 .. 2
On(i) == IF i = 0 THEN N_data.address_type = "TESTNET"
         ELSE IF i = 1 THEN N_data.sign_hash_type = "ON" ELSE N_data.contract_data_type = "ALLOW"

WithType(data, i, on) ==
    CASE i = 0 -> [data EXCEPT !.address_type = IF on THEN "TESTNET" ELSE "MAINNET"]
      [] i = 1 -> [data EXCEPT !.sign_hash_type = IF on THEN "ON" ELSE "OFF"]
      [] i = 2 -> [data EXCEPT !.contract_data_type = IF on THEN "ALLOW" ELSE "DISALLOW"]

\* switch_network, switch_sign_hash and switch_contract_data.
WithPrompt_Once(data, i, on) == [data EXCEPT !.menu[i] = IF i = 0 THEN "testnet" ELSE "On"]
WithPrompt(data, i, on) ==
    [data EXCEPT !.menu[i] = IF i = 0 THEN (IF on THEN "testnet" ELSE "mainnet")
                             ELSE (IF on THEN "On" ELSE "Off")]

Switch(i) ==
    /\ switched < MaxSwitches
    /\ \/ /\ screen = [flow |-> "config", step |-> i]
          /\ N_data' = WithPrompt(WithType(N_data, i, ~On(i)), i, ~On(i))
          /\ UNCHANGED switches
       \/ /\ display = "NBGL" /\ screen.flow = "menu"
          /\ N_data' = WithType(N_data, i, ~On(i))
          /\ switches' = [switches EXCEPT ![i] = ~On(i)]
    /\ switched' = switched + 1
    /\ UNCHANGED <<display, memory, ui, screen, history, requests>>

\* ui_cfg_screen, and ui_initial_screen from its last step.
Configure ==
    /\ display = "BAGL"
    /\ \/ screen = Menu /\ screen' = [flow |-> "config", step |-> 0]
       \/ screen.flow = "config" /\ screen.step < 3 /\ screen' = [screen EXCEPT !.step = @ + 1]
       \/ screen = [flow |-> "config", step |-> 3] /\ screen' = Menu
    /\ UNCHANGED <<display, N_data, switches, memory, ui, history, requests, switched>>

\* NBGL: ui_initial_screen once the status has been shown.
ui_initial_screen ==
    /\ screen.flow = "status"
    /\ screen' = Menu
    /\ switches' = [i \in Settings |-> On(i)]
    /\ UNCHANGED <<display, N_data, memory, ui, history, requests, switched>>

-----------------------------------------------------------------------------
Init ==
    /\ display \in {"BAGL", "NBGL"}
    /\ N_data = [address_type |-> "MAINNET", sign_hash_type |-> "OFF", contract_data_type |-> "DISALLOW",
                 menu |-> [i \in Settings |-> IF i = 0 THEN "mainnet" ELSE "Off"]]
    /\ switches = [i \in Settings |-> FALSE]
    /\ memory = Cleared
    /\ ui = [callbacks |-> [w \in Screens |-> NULL], callback_data |-> [w \in Screens |-> NULL],
             prompts |-> <<>>, switch_screen |-> NULL, offset |-> 0,
             ok_callback |-> NULL, cxl_callback |-> NULL, active_prompt |-> <<>>, active_value |-> <<>>,
             tag |-> [w \in Screens |-> <<>>], value |-> [w \in Screens |-> <<>>]]
    /\ screen = Menu
    /\ request = NoRequest /\ seen = {} /\ answer = "none"
    /\ requests = 0 /\ switched = 0

Next ==
    \/ \E r \in Requests : Request(r)
    \/ \E step \in 0 .. AcceptStep : Turn(step)
    \/ \E first \in 0 .. MAX_SCREEN_COUNT + PairsPerPage : TurnPage(first)
    \/ \E accepted \in BOOLEAN : prompt_response(accepted) \/ reviewChoice(accepted)
    \/ \E i \in Settings : Switch(i)
    \/ Configure \/ ui_initial_screen

Spec == Init /\ [][Next]_vars
-----------------------------------------------------------------------------
\* Properties.

\* What the user is told of a request, by the titles of the rows (README.md).
Titles(r) ==
    CASE r.kind = "Public Key" -> {"Address"}
      [] r.kind = "Extended Public Key" -> {"Provide", "Derivation Path", "Address"}
      [] r.kind = "Account" -> {"Import"}
      [] r.kind = "Message" -> {"Sign", "Message: "}
      [] r.kind = "Message Hash" -> {"Sign", "Message Hash: "}
      [] r.kind = "Transaction" ->
            {"Confirm", "Amount", "Fee", "Destination"}
            \cup (IF N_data.contract_data_type = "ALLOW" THEN {"Contract"} ELSE {})
      [] r.kind = "Transaction (outputs)" -> {"Confirm", "Amount", "Fee"}
      [] r.kind = "Self-Transfer" -> {"Confirm", "Amount", "Fee", "Destination"}
      [] r.kind = "Multi-Input Transaction" ->
            {"Confirm", "Input", "Source", "Amount", "Fee", "Destination"}
      [] r.kind \in {"Deposit", "Prepare"} -> {"Confirm DAO", "Deposit Amount", "Fee", "Cell Owner"}
      [] r.kind = "Withdrawal" -> {"Confirm DAO", "Deposit Amount", "Compensation", "Cell Owner"}

Meaning(r, title) ==
    CASE title \in {"Confirm", "Confirm DAO", "Provide", "Import", "Sign"} ->
            Static(IF IsOutputs(r) THEN "Transaction" ELSE r.kind)
      [] title = "Amount" ->
            IF r.kind = "Multi-Input Transaction" THEN Text("frac_ckb_tuple_to_string", r.data.amount)
            ELSE Text("frac_ckb_to_string", r.data.amount.snd)
      [] title \in {"Fee", "Compensation"} -> Text("frac_ckb_to_string", r.data.total_fee)
      [] title = "Deposit Amount" -> Text("frac_ckb_to_string", r.data.dao_amount)
      [] title = "Input" -> Text("uint64_tuple_to_string", r.data.input_count)
      [] title = "Source" -> Text("sighash_address", r.data.current_lock_arg)
      [] title = "Cell Owner" -> Text("sighash_address", r.data.dao_cell_owner)
      [] title = "Address" -> Text("sighash_address", r.data.render_address_lock_arg)
      [] title = "Destination" ->
            Text(DestinationCallback(r.data.outputs[1]), r.data.outputs[1].destination)
      [] title = "Contract" -> Text("contract_type_to_string", r.data.contract_type)
      [] title = "Derivation Path" -> Text("bip32_path_to_string", r.data.key)
      [] title = "Message: " ->
            Text(IF r.data.display_as_hex THEN "buffer_to_hex" ELSE "copy_buffer", r.data.display_as_buffer)
      [] title = "Message Hash: " -> Text("buffer_to_hex", r.data.display_as_buffer)

Told(r) ==
    {<<<<title>>, Meaning(r, title)>> : title \in Titles(r)}
    \cup (IF IsOutputs(r)
          THEN {<<OutputTitle(n, Len(r.data.outputs)), OutputRow(r.data.outputs[n])>> :
                    n \in DOMAIN r.data.outputs}
          ELSE {})

\* The rows the user looks at.
OnScreen ==
    IF screen.flow = "prompts" /\ screen.step \in Screens
    THEN {<<ui.active_prompt, ui.active_value>>}
    ELSE IF screen.flow = "review"
    THEN {<<ui.tag[Buffer(n)], ui.value[Buffer(n)]>> : n \in Page(screen.step, RowCount(request))}
    ELSE {}

\* Every row on the screen belongs to the request that is asked for and shows,
\* under its title, the datum of that title as it is in the request: no function,
\* pointer, label or row text that an earlier prompt has left (ui_common.c:54), on
\* neither kind of device.
RowsTellData == \A row \in OnScreen : row \in Told(request)

\* Every request of a handler comes to the screen: none has too many rows for the
\* flow or a row without a function (ui_common.c:55, 61, ui_bagl.c:203).
RequestsAreShown ==
    [][requests' # requests => screen'.flow \in {"prompts", "review"} /\ seen' # {}]_vars

\* The user accepts only when each row of the request has been on the screen since
\* it was asked for, and it is the callback of that request that is called.
AcceptedAfterAllRows ==
    [][answer' # answer /\ answer' \notin {"none", "delay_reject", "sign_reject"} =>
          /\ seen = {row[1] : row \in Told(request)}
          /\ answer' = (CASE request.kind = "Public Key" -> "pubkey_ok"
                          [] request.kind = "Extended Public Key" -> "ext_pubkey_ok"
                          [] request.kind = "Account" -> "account_import_ok"
                          [] request.kind = "Message" -> "sign_message_ok"
                          [] request.kind = "Message Hash" -> "sign_message_hash_ok"
                          [] OTHER -> "sign_ok")]_vars

\* What the menu says of a setting is what is stored, although the text and the
\* setting are two fields (BAGL) and the switch is a copy (NBGL).
SettingsTold ==
    \A i \in Settings :
        IF display = "BAGL"
        THEN N_data.menu[i] = IF i = 0 THEN (IF On(i) THEN "testnet" ELSE "mainnet")
                              ELSE (IF On(i) THEN "On" ELSE "Off")
        ELSE switches[i] = On(i)
=============================================================================
