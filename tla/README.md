# A TLA+ model of the Nervos app

This directory is a verification development for the Ledger app for the Nervos
network (CKB): modules that model what the program in `src/src` does, TLC
configurations that check them on small instances, and theorems about them,
proved with TLAPS for every value of the constants.

## 1. The system

The app runs on a device with a few kilobytes of memory, a screen and two
buttons (or a touch screen). A host sends commands (APDUs) of at most 230 bytes
of data; the app answers each with a response and a status word, for most of
them only after the user has gone through a *prompt* and approved or rejected.

| Component | State it keeps | Operations | Where |
|---|---|---|---|
| Transaction signing | `apdu_sign_state_t` (`G`): parser stack, running hashes, lock args, counters over inputs, table of outputs, parsed transaction | `handle_apdu_sign`: first and later packets; some thirty parser callbacks; `sign_complete`; approve, reject | `apdu_sign.c`, `globals.h`, `types.h` |
| Molecule reader | parser states of nested tables and vectors | `MolReader_*_parse` on a chunk: resume, make callbacks, complete or reject | `blockchain.h`, `annotated.h`, `molecule_reader_streaming.h` (generated from `doc/*.mol`) |
| Witness hashing | witness parser stack, multisig threshold and key count, `hash_state` | `begin_witness`, `witness_offsets`, `process_witness`, ... | `apdu_sign.c:789-949` |
| Message and message-hash signing | key, packet index, display buffer, hash | first, next and last packets, approve, reject | `apdu_sign.c:1070-1300` |
| Public keys, account import | path and extended key | one command each, with or without a prompt | `apdu_pubkey.c`, `apdu_account.c` |
| APDU dispatch | table of handlers | `main_loop` | `apdu.c`, `main.c` |
| Prompts and settings | callbacks of the current prompt; NVRAM settings (network, sign hash, contract data) | show, approve, reject; three switches | `ui_*.c`, `globals.c` |
| Keys | none | path parsing, derivation, ECDSA | `keys.c` |
| Rendering | none | capacities, addresses (bech32m), hex | `to_string.c`, `segwit_addr.c` |

Signing a transaction is the core. The host sends an *annotated* transaction:
BIP32 paths of the signing key and of change, the number of inputs, the raw
transaction in which every input is followed by the whole transaction it spends
from, and the witnesses. The device sees it once, in chunks, and must compute
from it both the hash to sign, which is over the transaction *without*
annotations, and what to tell the user: amount, fee, destinations or the DAO
operation, and which of the inputs it signs for. Nothing is kept but sums, a
table of five outputs and a tag for the kind of operation; callbacks of a
streaming parser update them in the order of the bytes. What is hard about it:

* **order**: inputs, outputs and the data of outputs arrive one after the other
  and each can change the operation; neighbouring cells are merged; the cell a
  callback is about is known only from flags set by earlier callbacks;
* **partial failure**: a rejection marks the transaction unsafe and returns from
  one callback only; the parser goes on and later callbacks still run;
* **interleaving**: between two chunks the user can switch settings that the
  callbacks read, and the host can start over;
* **limits**: five rows, 64-bit sums, a bit mask, a union whose meaning changes
  after the inputs;
* **stale state**: all of it lives in one global that survives an abandoned or
  refused transaction.

The correctness properties per component: a review tells the truth about the
transaction, a signature is over what was reviewed with the key asked for, what
is supported is not turned down, what the settings forbid does not get through
(transaction signing); a parse does not depend on how the bytes are cut into
chunks and comes to an end (reader); the hash is the one the lock script checks
(witnesses); the message shown, the message hashed and the key belong together
(messages); one response per command, a prompt is answered by the command that
put it up (dispatch); a rendered value determines the value (rendering).

## 2. Modules

| Module | What it is |
|---|---|
| `CkbTransaction` | the data: 64-bit words modulo a constant `WORD`, lock args, scripts, cells, `AnnotatedTransaction`, the transaction hash |
| `TransactionViews` | the whole transaction at once: what it spends, creates and pays to whom, with locks as the lock scripts of the chain read them, by recursive functions over its cells; when a screen is *faithful* to it; which transactions are *ordinary* |
| `TransactionReview` | the abstract specification: a transaction is received, then refused or presented on a faithful screen, then approved or declined |
| `SignTransaction` | the program: one action per parser callback, the chunk handling, the prompts, the answers; its properties |
| `SignTransactionProofs` | theorems about `SignTransaction`: types and the table of outputs |
| `ReadingProofs` | at every callback the device's fields are those of the cell the parser is at |
| `VerdictProofs` | what was found standard, what the Contract row tells, what is hashed and signed |
| `FaithfulProofs` | sums, rows, sources and operations are those of the whole transaction: `SignTransaction` implements `TransactionReview`, and no supported transaction is refused |
| `MCSignTransaction` | families of transactions for TLC |
| `DocumentedReviews` | statements of the documentation the code does not live up to |
| `MoleculeEncoding` | bytes, numbers and the molecule encodings a witness is made of |
| `WitnessDigest` | the abstract specification of the digest: what the lock scripts check, from whole witnesses |
| `WitnessHash` | the program: the parsers of the witnesses byte by byte and their callbacks; its properties, the mapping to `WitnessDigest` |
| `WitnessHashProofs` | theorems about `WitnessHash`, up to the refinement of `WitnessDigest` |
| `AppNervos` | the app around the parser: dispatch, every command, the union of their states, prompts and answers, settings, restarts; its properties |
| `AppNervosProofs` | theorems about `AppNervos` |
| `DocumentedMessages` | a comment about messages the code does not live up to |
| `MCWitnessHash` | small messages for TLC |
| `MoleculeSchema` | the types of `blockchain.h` and `annotated.h`: one definition per generated parse function, its shape |
| `MoleculeReader` | the program: `mol_parse_bytes`, the macros and what the generated functions of each shape do, with the nested states as a stack; the client is a parameter; its properties |
| `MoleculeReaderProofs` | theorems about `MoleculeReader` |
| `MoleculeValues` | the reference: values, their encoding, and the calls their reading should make, by recursion over the type |
| `MCMoleculeReader` | small encodings, whole and broken, for TLC; a client that writes its calls down; a second reading in one packet |
| `TransactionHash` | a client of `MoleculeReader`: the callbacks that hash the transaction without its sources |
| `MCTransactionHash` | `MoleculeReader` with this client, small annotated transactions, what the network would hash |
| `Address` | `convert_bits`, the bech32m checksum and text, the payloads of the two kinds of address; how a wallet reads them |
| `Rendering` | the conversions of `to_string.c`, paths, messages and hex; how a reader reads them |
| `RowText` | one row written into `active_value`, over `Address` and `Rendering`; its properties |
| `MCRowText` | the boundaries of each conversion for TLC |
| `Prompts` | the screens: registered functions and pointers, labels, the flow of a device with buttons and the pages of one with a touch screen, answers, menu and settings; its properties |
| `PromptsProofs` | theorems about `Prompts` |
| `MCPrompts` | a request of every kind for TLC |

### How SignTransaction corresponds to the code

The variables are the fields of `apdu_sign_state_t`, grouped as the C structs
group them (`cell_state`, `maybe_transaction` with its `v`, `utx` for `G.u.tx`,
`inp` for `G.u.inp`, `sums` for the counters over inputs). `hash_state` and
`hashes` hold sequences of the chunks hashed so far, that is, blake2b is taken
to be injective. `at` is the parser's position: which vector of cells it is in,
the callback it makes next and the indices of the input and the cell. `tx` is
the transaction the host is streaming; an action reads from it exactly the field
its callback is handed.

One step is one callback, so that a chunk may end anywhere and the user and the
host may act there: `switch_contract_data` (the settings menu), `first_chunk`
(the host starts over), `chunk_refused` (the last marker too early, or a hard
reject). `Follow` says which callback comes next; it is read off the schema of
the readers and the tables of callbacks (`annotatedTransaction_callbacks` and
those it refers to). An action is called after its callback. A callback that
several branches of the code make up is a disjunction of actions
(`output_end_dao`, `output_end_first`, ...). Once the last byte is parsed,
`Complete` is `handle_apdu`'s decision: refuse (with or without the fall-back
flag), or `sign_complete`, which puts a record of the prompt's rows on `screen`.
`sign_ok` is `perform_signature`: the pair of key and final hash.

Approximations, each with its reason:

* Code hashes are "default", "multisig", "dao" or "other", hash types "type" or
  "other", type args empty or not: the code compares and no more.
* The args of a lock are their size in bytes, any number, and what the first 28
  bytes hold, a hash and a period. `script_arg_chunk` compares them with one of three
  hashes byte by byte as far as they go: empty args agree with every hash, a
  prefix agrees, and bytes 20 to 27 are compared with the hash that lies behind in
  `apdu_sign_state_t` (`Compared`; globals.h:99-101). How much of two args agrees is
  the constant operator `FirstBytes`, what a period reads as in the bytes of a hash
  `AsPeriod`; `BytesAssumption` says of them what holds of bytes. A chunk that would
  go beyond 28 bytes is left out of `lock_arg_tmp` by the code while one behind it may
  still be taken, so that with longer args `lock_arg_tmp` ends as any value.
* Data of a cell is its size (the code keeps four bits of it, saturating at 15)
  and whether some byte is not zero.
* A BIP32 path is the hash of the public key derived from it.
* Vectors have at least one item, and there are as many items of `outputs_data`
  as outputs, as in every CKB transaction.
* The witnesses are one step; `WitnessHash` takes it apart.
* A packet with `P1_NEXT` on cleared state behaves as one with `P1_FIRST`, since
  the cleared parser stack is the initial one; `first_chunk` covers both.
* While a prompt is up, the host waits for the response, as the transport
  protocol has it: no `first_chunk` in a review. One kind of command is in
  progress at a time; `AppNervos` has them mixed.
* `1<<current_output_index` is an `int` shift, so `MAX_CELLS < 31`.

### How WitnessHash corresponds to the code

Here the data are bytes, since what is hard about the witnesses is that a packet
may end between any two of them. `message` is what the host sends of the
`witnesses` vector, together with `signing_multisig_input`, which the inputs have
settled by then. `packet` counts the data bytes of the packet that are not
consumed. There are two parsers, one inside the other:

* `at`, `item`, `read` are the state of `BytesVec_parse` and `Bytes_parse` on the
  vector: `index` (between two witnesses), `length` and `body` of a witness, `more`
  (`INCOMPLETE`, waiting for `NewPacket`), `parse` (inside `process_witness`, for
  the first witness), `end`, `finalize`, `done`.
* `args` is the `WitnessArgs_state` kept in `witness_stack`: total size, three
  offsets, then for each field its length and body, with the bytes of a number
  that is not complete (`num`) and the bytes of a body already seen (`seen`).
  `chunk` is what that parser has left of the buffer it was given.

Each callback is part of the action of the parser step that makes it:
`BeginWitness` (`begin_witness`), `WitnessLength` (`hash_witness_length`),
`ProcessWitness`, `ProcessWitnessEnd`, `FinalizeWitnesses`, `ParseOffset`
(`witness_offsets`), `ParseFieldLength` (`witness_lock_arg_size`,
`LengthFits` for the rejections), `ParseLockBody` (`witness_lock_arg_body_chunk`),
`ParseTypeBody`, `FieldDone` (`first_witness_done`). `hash` is the sequence of the
bytes hashed, blake2b being injective. `lock` is a history variable: the bytes
hashed by the multisig callback.

`witness_lock_arg_body_chunk` indexes its buffer by the number of flags still to
come without asking how long the buffer is. What is behind the data of a packet
is what an earlier packet left there; the model chooses it from `StaleBytes`, one
of which is 0 and one is not. `mol_num_t` is a signed residue modulo 2^32, so
that lengths wrap as they do in the code.

A signature is `SignatureSize` bytes (65 in the code) and a key hash
`KeyHashSize` (20); both are constants, with value 2 in the runs. Packets without
data are left out: the code passes them through without any effect but the
counting of `handle_apdu`. The vector's own header (its total size and offsets)
is read before `begin_witness` and belongs to the reader, not to this module.

### How AppNervos corresponds to the code

Here the parser is a black box and the order of commands is what matters.
`Command` is `main_loop` handing a command to its handler, with one action per
handler and kind of packet; `Approve` and `Reject` are the answer to a prompt,
`SwitchSetting` the menu, `Restart` the end of the app and its next start.

| Variable | In the code |
|---|---|
| `u` | `global.apdu.u`, the union of the handlers' states |
| `build` | which of `ui_bagl.c` (buttons) and `ui_nbgl.c` (touch screen) the app is built with |
| `screen` | the rows registered with `ui_prompt` and its two callbacks, or the menu (`Idle`) |
| `response` | what was sent for the last command; `NoResponse` while that is left to a callback |
| `N_data` | the settings in NVRAM, but for contract data, which only the parser's callbacks read |
| `session` | history: the kind, key and display form the last first packet gave, the packets accepted since, and whether one was refused |

The union is the member written last with its value. Reading another member gives
its zero after `clear_data`, and anything at all otherwise (`Junk` for a key or a
text, every value of a flag or of `packet_index`): what the bytes of one member
mean to another depends on the layout the compiler chooses. A session is
`"disturbed"` once a packet continues what another command wrote; the properties
of sessions make no promise for those.

* `Sign` is `handle_apdu`: `p1 = "other"` is a P1 that is neither of the two cases
  of the `switch`, which skips the parser and falls through to the test of
  `is_valid`. `Parse` chooses what `SignTransaction` computes: whether the packet
  completes the parse, and whether a callback rejected the transaction (`unsafe`)
  or asked for nothing to be shown of it (`hard_reject`).
* `SignMessageFirst`, `SignMessageNext`, `SignMessageHashFirst`,
  `SignMessageHashLast` are the branches on P1 of the two handlers. `Indexed`,
  `Shown`, `Hashed`, `Final` are the assignments in their order, so that a `THROW`
  leaves what the code leaves: `packet_index` is already incremented when the
  first packet turns out not to begin with the magic bytes (`LacksMagic`), so the
  packet after it is neither looked at nor shown. `session.refused` notes it.
* `pubkey_ok`, `sign_ok`, `sign_message_ok`, `sign_message_hash_ok` are the
  callbacks. With buttons `prompt_response` goes back to the menu and calls the
  callback then; on a touch screen `reviewChoice` calls it first and leaves the
  review when it returns. The difference shows when the callback throws, for a
  path the system derives no key for (`AfterThrow`): the host is answered in
  both, but on a touch screen the prompt is still there. The user can answer it
  again (`Approve` and `Reject` ask for a prompt only), also when the host has sent
  other commands since.

What is not in the repository and is modelled from how it is used: `THROW` out of a
handler ends in the SDK's loop, which answers with the status word and goes on
(the code counts on it: line 1012 of `apdu_sign.c` sets `hard_reject` for the next
packet and throws; the tests send further commands to one emulator after a
refusal, `tests/hooks.js`); if the app should end instead, `Restart` covers that. The operating
system derives keys below `44'/309'` only (`Makefile:50`), `MayDerive` and
`MayRefuse`. While a command is not answered the transport takes no other one.

Left out: the text of a message (`display` is the packet or nothing; `Rendering` has
the text), and instruction codes between the number of handlers and the
size of their table in bytes, which `main.c:33` passes in its place.

### How MoleculeReader and TransactionHash correspond to the code

The generated parsers are C functions over a nest of unions: each calls the parser
of its field, which calls that of its own, and when a packet ends all of them
return, to be called again from the outermost one with the next packet. Here the
unions are `stack`, one frame per parser at work. `Schema` gives the shape of each
type, one definition per `MolReader_<type>_parse`, and an action is what the
functions of one shape do between two reads, calls or returns:

| Action | In the code |
|---|---|
| `Packet` | `handle_apdu` calls the outermost parser; each on the way in takes its `start_idx` anew |
| `Incomplete` | `mol_parse_bytes` runs out; every parser on the way out returns `INCOMPLETE` after its chunk callback |
| `TableSize`, `TableOffset` | cases 0 and 1 of a table, the offsets callback and the start of the first field |
| `DynVecSize`, `DynVecOffset` | cases 0, 1 and the loop of 2 of a dynvec: only the first offset is kept |
| `Length` | the length of a fixvec or Bytes, with the overflow builtins |
| `Bytes_body` | the end of a leaf or of the body of a Bytes |
| `CallSubParser` | `MOL_CALL_SUBPARSER` with the size of the field, or its refusal |
| `Complete` | `DONE()`: the last chunk, the end callback, and the caller's next field or item |

Numbers are signed residues modulo 2^32, compared as unsigned; the product of a
length is computed in halves, since TLC has 31 bits. Callbacks run in the step that
makes them: `Callback(client, call)` is a constant operator, `Accepts` the answer of
a size callback. `begin` and `given` of a frame are history variables. What the
stack of the device costs is left out: the types have a finite nesting.

`TransactionHash` gives the callbacks of `apdu_sign.c` that hash:
`computeNewOffsetsToHash`, `blake2b_input_count`, `input_save_index`,
`finish_context_txn` and so on, and `OnCall` is the tables that register them.
`hash_state` is the bytes hashed; `Digest` of a source is a constant operator, in the
run a function that tells the sources apart. A `since` or count of the sources
themselves is hashed with their bytes. The count of inputs comes in the `length`
callback, which a vector of no items does not make: nothing is hashed for it then
(the signer has nothing to sign for in such a transaction, and the runs have one
input at least).

### How Prompts, Rendering and Address correspond to the code

`Prompts` has the user interface of both builds, chosen by `display` at `Init`. `ui` is
`global.ui`: the functions, their pointers and the labels, which stay where an
earlier prompt left them; `memory` is `global.apdu.u` as the rows read it, one field
per datum. A row is the function that writes it and the datum, so that a wrong
function and a wrong pointer both show. `Request` is a handler that has filled in
its state: `PromptOf` is what it registers, `register_ui_callbacks`,
`ui_prompt_with_cb` what the two files of the interface do with it. On BAGL the flow
starts at `Offset`, `Turn` is a step in it, `prompt_response` the answer. On NBGL
`get_pair` copies a row out of `active_value`, `TurnPage` and `reviewChoice` are what
the SDK calls. `Switch`, `Configure` and `ui_initial_screen` are the menu. On NBGL
`reviewChoice` calls the handler's callback before it leaves the review, on BAGL
the menu comes first; a response is sent by the callback in both.

`Address`, `Rendering` and `RowText` are functions: texts are sequences of ASCII
codes, a buffer has its size, `Thrown` stands for a `THROW` or a failure.
`bech32_polymod_step` is the code's with exclusive or on 30 bits; `convert_bits`
keeps 16 bits of `val`, since no group looks further back (the code keeps 32 and
TLC has 31). Amounts are natural numbers below 2^31; `convert_number` has its 20
digits nevertheless. `replace_undisplayable` counts a size of eight bits down and
reads behind the packet as the code does, where a constant byte `Stale` lies. Each
function has its reader: `SaysAddress` decodes as BIP-350 has it, `SaysCKB` and
`SaysNumber` accept one text per number, `SaysMessage` is what README.md:461 says of
messages.

## 3. What is checked

`ReviewIsFaithful` says that `SignTransaction` implements `TransactionReview`:
`TransactionReview!Spec` under the mapping of `at` to `phase` (other variables
have their own names). Its heart is `Faithful(tx, screen)`, which holds of each
row of each kind of review: amount, fee and destination of a transfer, all rows
of a transfer to several, which sources there are and that the user signs for
exactly the one named, owner and amount and kind of DAO operations. The two DAO
screens without a destination row (deposit, prepare) are held to the rows they
have. And `Approve`: the signature is with the key of the sign path over the
hash of the transaction itself, computed from the whole rather than in pieces.

| Run | Instance | Properties |
|---|---|---|
| `sign_reviews` | transfers (up to 3 inputs and 3 outputs; from the signer, another owner, a multisig script; to change, a stranger, a multisig script), tables (4 to 7 outputs), the DAO (plain, deposited and prepared cells among up to 3 inputs and 2 outputs, with matching capacities and without), sources of two cells with indices 0 to 2, odd lock args (none, ten bytes that the signer's and the change hash begin with, 28 that go on as the memory behind the hash or not, 29, a multisig script with the hash of a key) of inputs, outputs and DAO cells, non-standard locks, types, hash types, data of size 1, 8 and 16; one switch of the contract-data setting at any callback | `TypeOK`, `NoInternalError`, `OutputTableAddsUp`, `SupportedNotRefused`, `StandardUnlessAllowed`, `ContractRowTold`, `FeeTold`, `ReviewIsFaithful` |
| `sign_sessions` | eight transactions of all kinds, one with a wrong input count, one with a path too long; two sessions, one switch | `ReviewIsFaithful`, `ParseEnds` |
| `witness` | one signer: lock absent, of the standard length, of another, types present, empty, absent, one or three witnesses; multisig: script with blank signatures, without keys, with the flags cut short, no lock; seven first witnesses that are no `WitnessArgs`, a script with the reserved byte set | `TypeOK`, `ScriptParameters`, `IncompleteIsStandard`, `ReservedSeen`, `ComputesSighash`, `DigestComes` |
| `nervos` | both builds; two keys, a path the system refuses, a malformed one; three packets, one without the magic bytes; two hashes; every order of all commands, answers, switches, restarts | `TypeOK`, `ReviewOfAcceptedOnly`, `MessageSignatureHonest`, `HashSignatureHonest` |
| `molecule_reader` | seven encodings that cover every shape, empty vectors and absent options; some ninety broken ones (a size, offset or length replaced by 0, -1, one too large or too small, one that overflows, or the end cut off); packets of 0 to 30 bytes in any sequence, then the same bytes in one packet | `TypeOK`, `ReadsWhatWasWritten`, `CutsDoNotMatter`, `IncompleteConsumesAll`, `ChunksGapless`, `Answers` |
| `transaction_hash` | annotated transactions of one and two inputs whose sources have outputs or none, one with a wrong count, one with a path too long; packets of six sizes | `HashIsOfStandardEncoding`, `RefusesWrongCount` |
| `prompts` | sixteen requests of every kind, three in a row, on both kinds of device, forward and back, answered either way, two switches of settings | `RowsTellData`, `SettingsTold`, `RequestsAreShown`, `AcceptedAfterAllRows` |
| `row_text` | 266 rows: amounts at every place of the decimal point, addresses with and without each byte of a time lock on both networks, outputs, paths, messages of 0 to 240 bytes with characters of one to four bytes at the cut, hashes | `RowTellsDatum`, `RowFits` |

* `OutputTableAddsUp`: the rows of the table add up to the amount, unused rows
  are zero, the destination flag says whether there is a row.
* `SupportedNotRefused`: the converse of refusing: a transaction of a kind that
  prompts.md describes, with standard cells, is not turned down (unless the
  stream itself is cut wrong). `Supported` says which those are. Their locks are
  `ProperLocks`: with the args the scripts take, since others may be taken for the
  signer's or the change path's. Several sources are asked to be locks of keys: in
  its multi-input branch `finalize_raw_transaction` turns down a multisig cell.
* `StandardUnlessAllowed`: if contract data was disallowed during the whole
  parse, what is reviewed consists of standard cells. The setting may be
  switched between any two callbacks; `allowed_since_first` is a history
  variable for it.
* `ContractRowTold`: the Contract row, where shown, is right.
* `FeeTold`: the fee or compensation of a review is the difference of what is
  spent and what is created, for *any* locks: `Faithful` is promised of proper locks
  only, but also where odd args send a cell to the wrong branch no capacity is
  lost between the sums.
* `NoInternalError`: the `THROW`s of `output_end` and `outputs_end` that guard
  against states "that cannot be" are indeed not reached.
* `ParseEnds`: under weak fairness of the parser's steps and of the decision, a
  stream comes to an end. The fairness says that the host sends the rest of its
  packets; a step of the parser is a part of the synchronous handling of a
  packet, and nothing else on the device can run meanwhile.

* `ComputesSighash`: `WitnessHash` implements `WitnessDigest` with `final_hash` for
  its `digest`. The abstract side is the one `checkSignature` in `tests/hooks.js`
  recomputes: transaction hash, length and bytes of each witness, the first with
  its signature blank (for a multisig: with all that follows the script blank). It
  knows of no packets, so the property says as well that cutting does not matter.
  It names the digest of the messages that are `Signable`: a whole first witness,
  which for a multisig is unsigned and has a reserved byte of zero. Of the others
  it says that there is one digest, at the end. A multisig witness that carries
  signatures is not `Signable`, so it is no part of this property that "Zero
  signatures" reaches only the chunk in which the script ends (below).
* `ScriptParameters`: threshold and number of keys, which `sign_complete` shows
  and which decide where the signatures start, are the third and fourth byte of
  the lock as hashed, although they may first be taken from stale bytes.
* `ReservedSeen`: a script whose reserved byte is set is always rejected.
* `IncompleteIsStandard`: a first witness whose parser has not completed leaves
  nothing in the hash, which is that of the standard empty witness.
* `DigestComes`: under weak fairness of the device's steps and of `NewPacket` the
  device reaches the digest whatever the first witness holds. A device step is a
  part of the synchronous handling of one packet; `NewPacket` is the host, which
  goes on sending as long as it has something to send.

* `MessageSignatureHonest`: a message signature that answers a waiting command, in a
  session no other command disturbed, is by the key of its first packet over
  exactly the packets accepted since, in the form asked for, and the screen showed
  the first of them, which begins with the magic bytes. After a first packet that
  was refused the screen shows nothing, and the rest need not begin with
  anything: the property says that the text is blank then, always, and `doc_magic`
  shows that this is not what the source says of itself.
* `HashSignatureHonest`: a hash that is signed in answer to a waiting command is the
  one on the screen, also when another command came between the path and the hash;
  it is signed only while the setting allows it, which can be switched between the
  two, and in an undisturbed session by the session's key.
* `ReviewOfAcceptedOnly`: in an undisturbed session, after a packet of a transaction
  was refused no later one brings it to the screen, and what comes there was parsed
  to its end with no callback rejecting it.
* `TypeOK` of `AppNervos` includes `Answered`: a command without an answer has its
  prompt on the screen, and a prompt without such a command is that of a message or
  a hash, on a touch screen (its callback has thrown). Of what a prompt left there
  signs when it is answered again nothing is promised: the two properties of
  signatures are about those that answer a command. No liveness is claimed
  there: an answer to a prompt is the user's, whom nothing compels.

* `ReadsWhatWasWritten`: a well-formed encoding is never rejected and completes with
  its last byte, and the client has by then been called exactly as for the value
  that was encoded, in order, with the right bytes. The reference is `AllCalls`, by
  recursion over the value, which knows of no packets, states or offsets.
* `CutsDoNotMatter`: any bytes, also those that are no encoding, end in the same
  verdict after the same bytes and calls as in a single packet.
* `IncompleteConsumesAll`: `handle_apdu` drops what a parser has not consumed; there
  is nothing when it answers `INCOMPLETE`.
* `ChunksGapless`: the chunk callbacks (which hash) are given every byte once and in
  order, by every nest of parsers and every early return.
* `Answers`: under weak fairness of `Parse` a call of the parser returns, also for
  lengths and counts that make no sense.
* `HashIsOfStandardEncoding`: what is hashed is the `RawTransaction` as the network
  encodes it, with the digest of the source actually sent for every input; the
  device never receives these bytes. Before the end it is a prefix of it, and the
  only other outcome is a refusal. `RefusesWrongCount` is when there is one.

* `RowsTellData`: every row on the screen belongs to the request asked for and shows
  the datum its title says, as it is in the request: nothing an earlier prompt has
  left, on neither kind of device.
* `RequestsAreShown`: every prompt of the handlers comes to the screen; none has more
  rows than there are screens or a row without a function.
* `AcceptedAfterAllRows`: the user can only accept after every row of the request was
  on the screen, and the callback is that of the request.
* `SettingsTold`: the menu says what is stored.
* `RowTellsDatum`: a row reads back as the datum it was written from. Messages are
  well-formed UTF-8; with others `replace_undisplayable` may count its eight bits
  below zero, which is modelled but in no run.
* `RowFits`: the text and its null stay in the buffer. The rows of `row_text` leave out
  the one that does not, which `doc_row_fits` shows.

**Bounds.** Transactions are drawn from families (`MCSignTransaction`); capacities
in the outputs are distinct powers of two, so that no two sets of outputs have
the same sum, and `WORD` is 128, small enough for sums and fees to wrap (a
transaction that pays out more than it spends). Three neighbouring cells are
enough for every transition of the merging code (new, same, back to an earlier
one), seven outputs exceed the table of five with change between, two sessions
show what one leaves for the next, one switch of the setting in a session is
enough for a callback to see it on and a later one off, or the other way round. `MaxSettingChanges` and `MaxSessions` bound the rest; because of them
the model stops, hence `CHECK_DEADLOCK FALSE`: on the device the host can always
send another packet. For the witnesses `MaxPacket` is at least the length of the
longest message (or of the longest first witness and what follows), and every
packet length from 1 up is a choice, so every way of cutting is covered; two
bytes of signature and of key hash are enough for a cut inside either. There, too,
`CHECK_DEADLOCK FALSE` is for the end, `at = "done"`. In `nervos` the only bound is
`MaxIndex = 2` for the 0xFF of `packet_index`: a first packet, shown or refused, a
second that is not, and one that must be turned down because the index is full
(without that guard it would become the first again); the model never stops,
and deadlock is checked.

In `molecule_reader` and `transaction_hash` a hash has `HashWidth = 2` bytes instead of
32: long enough for a packet to end inside. `PacketSizes` has all small sizes, which
between them end a packet at every byte, and one that takes the whole message;
TLC mixes them freely. `PathWidth = 4` makes a path of two components too long. In
`prompts`, `MaxRequests = 3` lets a short prompt follow a long one and the reverse;
`PairsPerPage = 2` gives NBGL full pages and one that is not; `MaxSwitches = 2` is there
and back; `MAX_SCREEN_COUNT = 8` is the code's. `row_text` has the code's widths, only
amounts are below 2^31 shannons. All four stop when what they were given is used
up, hence `CHECK_DEADLOCK FALSE`.

**Fairness** is stated where liveness is claimed, of steps that are part of the
synchronous handling of one packet (`Parse`, the device steps of the witnesses, the
callbacks of a transaction): nothing else on the device can run meanwhile. Only
`ParseEnds` and `DigestComes` also take the host to go on sending what it has begun.
Nothing is assumed of the user.

### Disagreements between documentation and code

Each is a run that violates one property, of `DocumentedReviews`, `DocumentedMessages`
or `RowText`.

| Run | The repository says | The code does |
|---|---|---|
| `doc_timelocks` | destinations of all outputs are displayed (ChangeLog.md:124) | neighbours to one multisig script with different time locks share a row |
| `doc_mixed_dao` | "Can't mix deposit, prepare, and withdraw in one transaction" (apdu_sign.c:648) | a deposit after a prepare is taken for a prepare, since `dao_data_is_nonzero` is not cleared between two items of `outputs_data` |
| `doc_magic` | "Ensure the message begins with "Nervos Message:"" (apdu_sign.c:1190); README.md:461 has the message shown | a first packet without the magic bytes is refused but counted, so the next one is hashed, prompted for behind an empty row and signed without them |
| `doc_row_fits` | "out_len: Length of output buffer so no overflows occur." (segwit_addr.h:62) | `multi_output_prompts_cb` passes the size of the whole buffer for what is behind the capacity; with a time-locked multisig destination a row of 129 characters and its null do not fit |

The inputs of these findings are in the passing runs where a property has
something to say of them: `nervos` has refused first packets, and `sign_reviews`
has the mixtures of the DAO, which are not `Ordinary`. `EveryDestinationShown`,
`MixedDaoRejected` and `BeginsWithMagic` are in no other run; `row_text` leaves out
time-locked multisig destinations behind a long capacity. The witness run leaves
out multisig witnesses that are signed already (clients send them blank) and a
first witness whose lock length does not fit its field while the rest parses.

Smaller divergences met on the way, read off the code and not run here:

* prompts.md:72 lets change appear as an output prompt, while `output_end` keeps it
  out of the table; prompts.md:96 describes prompts for two or more sources with
  two to five outputs, which `finalize_raw_transaction` refuses.
* README.md:655 has contract data shown at the end of Confirm Transaction; the review
  of several outputs (apdu_sign.c:171) does not tell.
* "Zero signatures" (apdu_sign.c:868) happens only in the chunk in which the
  multisig script ends.
* The reserved byte (apdu_sign.c:854) is also tested when a packet ends with the
  lock's length: what is tested then lies behind the packet, so the rejection depends
  on an earlier one.
* process_witness only compares with `COMPLETE` (apdu_sign.c:919): a first witness the
  inner parser has rejected is parsed on with the next packet and may complete,
  although the comment at apdu_sign.c:930 says the empty one is assumed.
* A message with characters of several bytes is cut after these have become one star
  each (apdu_sign.c:1136, :1202); README.md:461 counts characters, which it then is
  for well-formed text only.
* Lock args are never compared by their length (apdu_sign.c:375-395): see `ProperLocks`
  in section 4.
* README.md:509 has hashes of up to 64 bytes accepted; `SIGN_HASH_SIZE` is 32.
* The comment "Maximum of 20" (apdu_sign.c:115) is one short: 12 digits, a point and 8
  decimals are 21. It and its successor do not enter the code.
* `frac_ckb_to_string_indirect` asks for `MAX_INT_DIGITS + 1` bytes, one less than digits,
  a point and the null may take, and the tuple for two less than it may; the buffer is
  large enough for both.
* `bech32_encode` compares the length of its output with `out_len` and writes the null
  behind it: a text of exactly `out_len` is one byte too long.

## 4. What is proved

`SignTransactionProofs` proves, from the assumptions of `CkbTransaction` and
`SignTransaction` only (any set of transactions with at most `MAX_CELLS < 31`
outputs, any word size, any number of sessions and switches):

* `TypeCorrect`: `Spec => []TypeOK`. Besides the ranges of the fields this is
  memory safety of the callbacks: the cell a callback reads exists (`PositionOK`),
  `output_count` never exceeds the table.
* `TableAddsUp`: `Spec => []OutputTableAddsUp`.
* `NoThrow`: `Spec => []NoInternalError`.

The argument is one inductive invariant, `IInv == TypeOK /\ Ledger`, where `Ledger`
is `OutputTableAddsUp /\ FlagsWait /\ SelfLate /\ TagKnown /\ NoInternalError`,
because none of the three is inductive on its own. `NoInternalError` needs that a
missing destination flag means an empty table and amount, the first conjunct of
`OutputTableAddsUp`, which holds only as long as `outputs_end` has not turned the
change into the amount. So the proof must know that `is_self_transfer` is not set
while outputs are still to come (`SelfLate`), that the flags are empty as long as
the parser is before the outputs of the transaction itself (`FlagsWait`), and
that the tag is one of the operations in progress before `finalize_raw_transaction`
and one `sign_complete` has a screen for after it, or the transaction is unsafe
(`TagKnown`). And all of it needs `PositionOK`, which says which callbacks can be
next in which vector. `IInv` was checked with TLC on all families before it
was proved.

Layout: `Advance` shows that `Follow` keeps `PositionOK`; `Parsed` and `Quiet` lift
that to callbacks that leave the ledger alone; one lemma per group of actions
(`PrologueStep`, `InputsStep`, `CellScriptsStep`, `CellsDataStep`, `OutputsStep`,
`FinalizeRawStep`, `CompleteStep`) with a step per action; the arithmetic of the
table is in `AddZero`, `AddSwap`, `SumAdd` and `Entries`, which unfold the
modular sum without recursion, so that no induction is needed.

Three more modules, each on top of the one before, go from there to the refinement. All
their invariants say how a field of the device relates to the transaction itself, at
every callback, and each is inductive only together with those before it.

`ReadingProofs`, `ReadsTheCells`: `Spec => []Reading`. The device gets to know a cell by
flags that callbacks set and others clear. `Reading` says, for each position of the
parser, which of them are those of the cell it is at: its capacity, lock flags,
`is_dao`, `dao_data_is_nonzero`, `data_size`. It says no more than the code does:
in `OutputsDataKnown`, `dao_data_is_nonzero` is set exactly when the data of this output
*or of an earlier one* is not zero, since `apdu_sign.c` does not clear it between two items
of `outputs_data`.

`VerdictProofs` adds what has been decided of the cells read so far (`InputsScripted`,
`InputsCounted` and the same for outputs say how many):

* `StandardOnly`: `Spec => []StandardUnlessAllowed`. `StandardRead` is the part that
  carries it: as long as nothing was rejected and the setting was never on, every cell
  whose scripts or data are behind the parser is standard. `SettingNoted` relates the
  setting to the history variable.
* `ContractTold`: `Spec => []ContractRowTold`, by `ContractRead`: `contract_type` is
  "UNKNOWN" exactly when some cell counted so far has data that is not the DAO's.
* `SignsTheReviewed`: a signature appears only in a step from a review, with the key of
  the sign path, over the hash of the transaction. `Hashing` says which prefix of the
  chunks `RawHash(tx)` has been hashed at each position (`HashedSoFar`) and that of a
  source (`ContextKnown`).

`FaithfulProofs` does the sums and the rows, `Known`: at each position the amounts are the
sums over the cells counted so far (`SpentKnown`, `AmountsKnown`), the sources those of
the inputs read so far and the one signed for the one that `input_count_fst` numbers
(`SourcesKnown`, `OursKnown`), the table the rows that the outputs so far ask for
(`TableKnown`), the tag the operation (`OperationKnown`, `ConcludedKnown`). Three theorems
come from it:

* `ShowsTheTransaction`: `Spec => []Shown`: the screen of a review is faithful to the
  transaction, if that is ordinary.
* `ImplementsReview`: `Spec => ReviewIsFaithful`: every step, with any transaction, is a
  step of `TransactionReview` or a stuttering step of it. `TransactionReview` presents
  an ordinary transaction on a faithful screen only; of one that is not ordinary it
  leaves the screen open, and still has it received, presented and signed as a
  whole.
* `SupportedAccepted`: `Spec => []SupportedNotRefused`: no `REJECT` or `THROW` of the parser,
  and no answer of `handle_apdu` but the parse error, comes for a supported transaction.

The sums of `TransactionViews` are recursive functions of the number of cells. That they
satisfy their equations is proved with the library's `WFMin`: of the numbers for which an
equation fails one is the least (`Least`). This takes no induction theorem with an
operator for a parameter.

`Ordinary` is what the refinement needs of a transaction. Each of its five parts stands
for a shortcut of the code; `OneTimelock` and `SeparateDaoData` are runs of their own
(section 3):

| Condition | What the code does otherwise |
|---|---|
| `ProperLocks` | Args are compared as far as they go, and whose script takes them is not asked. Empty args, or a prefix of the change hash, make an output change, which no row shows, and of the signer's hash an input one that is signed for; so do 28 bytes of which the last eight happen to be those behind the hash in memory; so does a script the code does not know (where the setting allows it) or a multisig script with such a hash. A hash of twenty zeros is what "no source yet" looks like. The abstract side has none of this: `IsKey` asks for the script and the length |
| `OwnersAreKeys` | the owner of a withdrawal from a multisig script is shown as the address of a key |
| `OneTimelock` | outputs to one multisig script with different time locks share a row (`doc_timelocks`) |
| `SeparateDaoData` | a deposit behind an output with nonzero data is taken for a prepare (`doc_mixed_dao`) |
| `RealAmounts` | payments or DAO inputs of 0 shannons in all are taken for none: totals are compared with zero |

`OrdinaryAssumption` has TLC evaluate that every supported transaction of the families is
ordinary, so the first two theorems are about them.

`SupportedAccepted` needs what `Known` does not say, since the transaction need not be
ordinary: `Accepting`. `RowsCounted`: rows of the table merge at least where those of the
transaction do, so that five payments always fit and a single one never makes a transfer
to several. `FirstKnown`: `input_count_fst` numbers a source the user signs for, so that a
second one means two owners. `MultisigKnown`: `signing_multisig_input` is not set
without a multisig cell. `SelfPlain`: a transfer to oneself spends no DAO cell, so that the
amount that `outputs_end` moves cannot turn down a withdrawal. `Fine` is the claim itself
while the parse lasts. There is one lemma per callback that may reject: `ScriptsAccepted`,
`LockAccepted`, `SpentDataAccepted`, `OutputAccepted`, `OutputDataAccepted`,
`FinalizeAccepted`; `UnsafeStays` says that the others do not. The step of
`FinalizeAccepted` for several sources does not go through without the conditions on
locks in `Supported`, nor `OutputDataAccepted` if an output could have data that is
empty and not zero (`CellData`): without them TLC has a counterexample, and `OddArgs` keeps
those with odd args in the run.

`WitnessHashProofs` proves, for any set of messages, any sizes of signatures and
key hashes, any packet size and any stale bytes:

* `TypeCorrect`: `Spec => []TypeOK`; the indices into a witness and into a packet
  stay inside, and threshold and key count stay bytes wherever they came from.
* `ParametersWereHashed`: `Spec => []ScriptParameters`.

The inductive invariant is `IInv == TypeOK /\ ScriptParameters`. `ScriptParameters`
speaks of the history variable `lock`: with the count `consumed` alone one cannot
say which byte the threshold ought to be. Its first conjunct
(`consumed = Len(lock)`) is what makes the index `2 - consumed` of the code name
the third byte of the whole; `LockBodyStep` does the case split on where the
chunk begins and ends among the four flags.

* `ReservedByteSeen`: `Spec => []ReservedSeen`.
* `IncompleteWasStandard`: `Spec => []IncompleteIsStandard`, whatever the witnesses are.
* `ComputesTheSighash`: `Spec => ComputesSighash`, for any messages. `SignableAssumption` has
  TLC evaluate that the standard messages of the run are `Signable`, those the
  specification names the digest of. The others are those for which the device
  computes another digest on purpose (`IncompleteWasStandard`), rejects
  (`ReservedByteSeen`), or zeroes only the chunk in which the script ends (section 3,
  smaller divergences).

The first of them rests on `PlaceInv`, where the parsers are: `VectorInPlace` for that of
the vector, `FirstInPlace` for that of a whole first witness `w`. `ArgsInPlace(w, args, p)`
says that `p` bytes into `w` the parser is in the number or the content that lies there,
has kept the bytes of a number that is not complete, has read total size and offsets as
they are, and is never complete before the end of `w`. `WholeFields` is what it needs of
`IsWitnessArgs`: the fields lie one behind the other and their lengths fill them.
`LockInPlace` adds that the reserved byte has been looked at once a byte of the lock has
been consumed.

The digest rests on `HashInPlace`: what has been hashed at any time is the transaction hash,
then `HashedOf(message, args, p)`, the part of the blank first witness that `p` bytes
of the real one give, and then, witness by witness, `Joined` of the others and
`OfThisWitness`. This is where header and lock come apart: `witness_offsets` hashes a
header that fits a lock of another length, and the blank lock of one signer, before the
lock arrives. Of a multisig lock the chunks are hashed as they come; that none of
them is rejected or zeroed into something else is `LockChunkHashed`, for which
`ScriptHashed` keeps the history variable `lock` equal to the part of the lock behind the
parser. There is one lemma per action (`NumIncompleteHash` to `LockBodyHash`, `BeginHash` to
`EndHash`), `FirstIsHashed` shows that all of `HashedOf` is the blank witness of
`WitnessDigest`, and `JoinedStep` and `JoinedAll` that the witnesses behind it, joined one
by one, are its `FlattenSeq`, a recursive function again.

`AppNervosProofs` proves, for any keys, packets, hashes and any `MaxIndex` above zero:

* `TypeCorrect`: `Spec => []TypeOK`, by one lemma per action, for both builds. `Answers`
  does the case of `Answered` for all commands, `AnswerResponds` that of the answers:
  the menu comes back, or the prompt of a message or a hash stays on a touch screen.
* `MessagesHonest`: `Spec => MessageSignatureHonest`.
* `HashesHonest`: `Spec => HashSignatureHonest`.
* `RefusedStaysRefused`: `Spec => []ReviewOfAcceptedOnly`.

The action properties follow from the invariant `Honest`, inductive together with
`TypeOK`, since each is about the step of the answer but depends on what earlier
packets left in the union. `ClearedSession`: what continues a cleared session
starts from zeroed memory. `HashSession` and `MessageSession`: as long as the
history says that a session is undisturbed, the union holds its member, with the
session's key and packets; `packet_index = 0` only before the first packet, which
is why no later packet is displayed as the first (this needs that `IndexFull`
keeps the byte from wrapping). `HashPrompted` and `MessagePrompted`: while a command
waits, what is on the screen is still in the union; of a prompt left on a touch
screen this is not so, later commands may have written the union. `OtherPrompted`: a
prompt of another command that waits is up only when its session is of another kind, so that an answer that leaves the
union alone cannot be taken for one in a message session. `OnlyApprovalSigns` says which steps
give signatures at all.

`RefusedStaysRefused` has the invariant `RefusalKept`, relative to `TypeOK` and `Honest`
(for the zeroed memory of a cleared session). A refusal does not always set
`hard_reject`: with `P1_NO_FALLBACK` a transaction is turned down as unsafe and its parser
stays complete, and one without a screen is turned down after `is_valid` was
set. `Marked` says what each of these leaves behind, and that `Parse` and the P1
that skips it keep it; `Clean` is what is on the screen. `RefusalSignPacket` splits
on the branches of `handle_apdu`.

`Honest` and `RefusalKept` were checked with TLC on the instance of `nervos` before they
were proved.

`MoleculeReaderProofs` proves, for any messages of bytes, whether they encode anything or
not, any packet sizes, any client and any width of a hash:

* `TypeCorrect`: `Spec => []TypeOK`: no parser reads past its packet, and the parsers of
  the nest begin one behind the other in what was read.
* `NothingLeftOfPacket`: `Spec => []IncompleteConsumesAll`.
* `EveryByteGiven`: `Spec => []ChunksGapless`.

They follow from one inductive invariant (`ParsersInPlace`), `IInv`, in three parts.
`Here` is where the reading is. `Parsers` gives the stack its types and says of each
frame that it begins where or before the reading is (`FrameInv`), that what it has
read fits its state (`StateFits`), that a read is not longer than what is wanted
(`Filled`), and what its chunk callback was given (`Told`); all frames but the
innermost are waiting for a field. `StateFits` is what makes it inductive: a
table in its fields has one number more than fields, so the offsets
`MOL_CALL_SUBPARSER` subtracts are there (`FieldSizeIsInt`), and a Bytes in its body,
which returns early without a chunk, is the only parser that does. `SchemaShape`
reduces the types to what a shape promises, so that no step looks at a single
type. `GoesOn`, `Replaced`, `Rejects` and `Unwinds` are the steps of the stack, used by one
lemma per action; `Pieces` joins the bytes of two packets.

`PromptsProofs` proves, for both kinds of device, any requests, any number of screens from
six up and any size of a page:

* `ShowsRequestedRows`: `Spec => []RowsTellData`.
* `BringsRequestsToTheScreen`: `Spec => RequestsAreShown`.
* `AcceptsAfterAllRows`: `Spec => AcceptedAfterAllRows`.
* `TellsTheSettings`: `Spec => []SettingsTold`.

`ScreensAssumption` and `RequestsAssumption` are what the code has: `MAX_SCREEN_COUNT` is 8
and a transfer to several brings at most `MAX_SCREEN_COUNT - 3` outputs (the table has five
rows). The first three follow from `PromptsInv`: either no prompt waits (`Ready`) or the memory and
the registration are those of the request that is asked (`Asked`), with the device at a
place of its review (`Reviewing`): `Prepared` is that each row of the request stands
at its screen with its function, its datum and its label, the stale ones behind it out of
reach; `Walking` (BAGL), `Paging` and `Confirming` (NBGL) relate the step to the rows
that were on the screen (`seen`). On NBGL those are the rows of all pages up to this one,
which is why confirming comes after all of them; on BAGL it is the walk itself that has
to pass every row on its way to the last screen, back and forth included (`Covered`).
`TellsTheSettings` has an invariant of its own, `SettingsInv`, since the texts of the menu are
strings that `Switch` changes apart from the prompts.

**Model-checked only:** `ReadsWhatWasWritten`, `CutsDoNotMatter`, `HashIsOfStandardEncoding` and
`RefusesWrongCount`, whose references are recursive over values of any depth; `RowTellsDatum`
and `RowFits`, computations on bits and digits with operators the provers do not have;
`ParseEnds`, `DigestComes` and `Answers`, since liveness under fairness is out of TLAPS's reach.

## 5. Plan

In this order; each new module is written to be composed with the ones above.

1. `CkbTransaction`, `TransactionReview`, `SignTransaction`, its runs and the
   theorems above: **done**.
2. `MoleculeEncoding`, `WitnessDigest`, `WitnessHash`, the refinement between
   them and the theorems above: **done**.
3. `AppNervos`: the main loop, the other commands, prompts and their callbacks,
   the settings, the union shared by the commands, and the theorems above: **done**.
4. `MoleculeSchema`, `MoleculeReader`, its runs and theorems, and `TransactionHash`, the
   hash of the transaction as a client of it: **done**.
5. `Address`, `Rendering`, `RowText`, `Prompts`: what is written into a row and which rows
   are shown: **done**.
6. Proofs of the refinements (`TransactionReview`, `WitnessDigest`), of the verdicts and
   of the screens: **done**.
7. Proof of `SupportedNotRefused`, from `Reading` and `Known`: **done**.
8. Left: what `RefusesWrongCount` says of values, stated of the bytes of a message instead, so
   that it can be proved from the invariant of `MoleculeReaderProofs`.

## 6. Not modelled

* Drawing on the screen and the layout of pages: the SDK's. Elliptic curves, key
  derivation and DER: the operating system's and data conversion.
* Decoding of bech32 and segwit addresses and base 58: in the source, never called.
* An instruction code between the number of handlers and the size of their table in
  bytes (main.c:33): the call goes wherever the bytes behind the table lead.
* A transaction of 32 outputs and more, for which the shift of apdu_sign.c:553 is
  undefined.
* The build, tests and fuzzers.

Modelled, but with no property to say what should come of it:

* a message session that another command disturbs: what is signed then is whatever
  the union holds (`Junk`);
* a prompt that stays on a touch screen when its callback has thrown, and is
  answered again;
* the text of a message that is not well-formed UTF-8;
* the digest of a multisig witness that carries signatures already.
