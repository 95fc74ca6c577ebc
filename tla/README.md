# quantum-safe in TLA+

A verification development for the `quantum-safe` Python package
(`src/src/quantum_safe`, 53 modules, 18,040 lines; paths below are relative to
that directory unless they begin with `src/`). The modules model the parts of
the package that keep state, run concurrently, survive crashes or speak a
protocol, and what its stateless parts sign, seal, accept and rate; TLC checks
them on small instances and TLAPS proves the most important properties for every
instance.

    tlc -workers 2 -config manager.cfg MCMigrationManager     # one run
    tlapm MigrationManagerProofs.tla                          # one proof module

`PROJECT.json` lists the runs with their properties, the source lines behind
each definition, the hazards of the code, and the theorems.


## 1. Inventory

### Parts with state, concurrency or failure

| component | state | operations | what is hard | what makes it correct |
|---|---|---|---|---|
| **Migration state manager** `migrate/state.py` | two store entries for each key (`<key>_history`, `<key>_current`), a lock for each key in each process | `transition`, `get_current_state`, `get_history`, `keys_by_state`, `needs_migration`, `migration_progress` | writers in threads and processes; lost compare-and-set races and retries; a crash between the two writes; damaged or legacy entries | one chain of legal records; nothing acknowledged is lost, nothing refused is recorded; the state moves only along the tables |
| **File migration store** `migrate/file_store.py` | `<key>.bin`, its lock directory with an owner token, its mtime (heartbeat) | `compare_and_set`, `__setitem__`, `__delitem__`, reads | a lock protocol out of `mkdir` and `rename`; locks of dead processes; deadlines | each call is atomic or fails and wrote nothing (but see Findings) |
| **Stateful LMS signer** `signatures/stateful.py` | next index `q` in memory, serialised keys outside, a durable high-water mark | `generate`, `load`, `serialize`, `sign` | threads sharing a signer, copies and backups of a key, a death between reservation and signature, the last index; no lock of its own | no one-time key signs twice, over a store that serialises reservations |
| **Streaming envelope** `protocols/stream.py` | chunk counter and finished flag on each side, carry-over buffer, `_Reader`'s buffer | `seal_stream`, `seal_chunk`, `open_stream`, `open_chunk` | pieces and chunks meet at any offset; truncation, reordering and splicing; the counter limit; unbounded input | nonces are unique; only a prefix is delivered; success means everything; memory is bounded |
| **Key file upgrade** `migrate/keyfile.py` | two output files, temporary files, backups | `upgrade_key_file`, `describe_key` | two renames that should be one; failure of the rollback; interrupts | an error leaves what was there; a secret key is never lost |
| **Envelope store migration** `migrate/rewrap.py` | a directory of envelopes, in place or copied to a destination | `rewrap_directory`, the report | reruns after a crash, foreign files at the destination, concurrent updates | no plaintext lost, no false success |
| **Sealed envelopes** `protocols/envelope.py` | none | `seal`, `open`, `rewrap`, `inspect` | what the authentication covers | opens only with the right key, algorithm, version and associated data |
| **Backend registry** `backends/__init__.py`, `backends/base.py` | cached adapter objects, the remembered ImportError of the Rust extension | `get_kem_backend`, `get_signature_backend`, `list_available_backends`, `clear_backend_cache` | probes racing a cache clear, packages installed into a running process, an override in the environment | the best backend is picked; a cleared failure stays cleared |
| **Backend adapters** `backends/liboqs.py`, `pyca.py`, `rustcrypto.py` | none but the import | keygen, encapsulate, sign, ... | keys of two forms, passed from one adapter to the other by name; builds that lack mechanisms | a key works with either adapter; no call goes round in circles; a good signature is not called bad |

### Parts without state

| component | operations | what makes it correct |
|---|---|---|
| **KEM classes** `kem/*`, `types/kem.py` | `KEM`, `HybridKEM`, X-Wing: generate, encapsulate, decapsulate | the combined secret depends on both parts and binds the ciphertexts |
| **Signature classes** `signatures/{core,hybrid,_v2,algorithms}.py`, `types/signatures.py` | sign, verify in format 1 and 2, raw signatures | accepted exactly with the key, mode and context signed with; what is signed for one purpose does not pass for another, outside the cases the code names |
| **Tokens and COSE** `protocols/{jwt,standard_jwt,cose}.py` | issue and check | the algorithm is the key's, not the token's; a token with a lifetime lapses |
| **TLS and X.509** `protocols/{tls,x509}.py` | contexts, certificates, co-signatures | the group list offered; the co-signature covers the certificate |
| **Key types** `types/keys.py`, `_internal/serialization.py` | documents and their readers | what is read is the key that was written; the public half is the seed's |
| **Audit** `audit/*` | inventory, policy, auditor, CBOM, SBOM, CLI | which finding and which key fails which policy, and with which exit code; a stricter policy is never easier to pass |
| **CNSA 2.0** `compliance/cnsa2.py` | ratings, `report`, `enforce` | what it says of a KEM is what the envelopes do |
| **Upgrader** `migrate/upgrader.py` | upgrade, strip | a stripped key is the half it was, and its signatures are not those of the whole |
| **Scanner, shims, CLI** `migrate/{scanner,shims,cli}.py` | source scan, forwarding shims, commands | exit codes |
| **Exceptions** `exceptions.py` | class definitions | - |

Tests, documentation, benchmarks and build files of the repository are read
for what they say of the program and not modelled.

### How they interact

- `MigrationStateManager` calls its store's `compare_and_set` when there is one
  (`FileMigrationStore`, or a database adapter) and reads and writes a plain
  mapping otherwise; the manager never sees the store's lock.
- `rewrap_directory` calls `rewrap` and `open` of the envelope module for each
  file; `upgrade_key_file` calls `Upgrader` and the key types.
- Envelopes and streams use the hybrid KEM, HKDF and AES-GCM; the KEM and the
  signature classes obtain a backend from the registry when they are built, and
  adapters obtain each other for keys of the other form.
- Tokens, COSE objects and co-signatures are `Sign`, `HybridSign` or raw
  signatures over their own framing; one key may serve them all.
- `LmsSigner` calls a store that the application supplies (`LmsStateStore`) and
  the external `pyhsslms`.


## 2. Plan

Ordered by what would hurt most if it were wrong. Abstract specifications are
written where a component promises one.

| # | modules | composes | abstract specification | state |
|---|---|---|---|---|
| 1 | `MigrationStates`, `MigrationManager` | managers, threads, a store | `MigrationLedger` | checked, proved |
| 2 | `FileMigrationStore` | processes and a file system | `CasRegister` | checked, proved |
| 3 | `LmsSigner` | signers, threads, a state store | - | checked, proved |
| 4 | `StreamSealer`, `StreamOpener` | sender, transport, receiver | `ByteChannel` | checked, proved |
| 5 | `KeyUpgrade` | calls and a file system | - | checked, proved |
| 6 | `Envelopes`, `RewrapDirectory` | runs, files, an application | - | checked, proved |
| 7 | `AlgorithmNames`, `AuditPolicy`, `AuditGate` | `MigrationStates` | - | checked, proved |
| 8 | `BackendAdapters`, `BackendRegistry` | users, probers, packages | - | checked, proved |
| 9 | `KemTerms`, `Cnsa2` | under 6, and on `AlgorithmNames` | - | checked and proved, within `rewrap` |
| 10 | `SignatureTerms`, `KeyDocuments`, `Tokens`, `SignedTraffic` | each on the one before | - | checked, proved |

`EarlyReturns` is the one helper module: a handler that leaves at the first
check that applies.

The plan is carried out. What is left to TLC is liveness (section 6), and what
is left out altogether is in section 7.


## 3. What models what

### MigrationStates, MigrationLedger, MigrationManager

`MigrationStates` holds the tables `Forward` and `Backward` and the validation
of one request. `MigrationManager` has, for each key, `history` (the sequence
in the history entry), `current` (the other entry) and `readable` (whether the
history bytes decode). A record keeps who wrote it (`id`, for the uuid), the
two states and whether a reason was given; timestamps and operators are left
out because no decision reads them. `kind` is the kind of store: one with
`compare_and_set`, or a plain dict, which only the threads of the process
`Home` can share.

A thread inside `transition` is at `pc[t]`; every access to the store is one
action: `Lock`, then with compare-and-set `ReadHistory`, `ReadLegacy` (the
state from the `_current` entry if there is no history), `Commit` or
`LoseRace` (retry, give up after `MaxAttempts`), and without it
`CheckCurrent`, `LoadHistory`, `StoreHistory`; both end in `WriteCurrent`.
`StoreFault` is a store that raises and ends the call, `ReadSwallowed` the one
read whose exception `_legacy_current` catches: the call goes on with an unknown
state (`unseen` remembers who did). `Crash` is a process that dies with all its
threads. `CurrentState`, `KeysByState` and `NeedsMigration` are the readers.

`MigrationLedger` says what the history should be: a sequence extended by one
legal record at a time. `RefinesLedger` maps the history of a compare-and-set
store to it; a dict's, which a crash may fork, is mapped to the empty ledger
(`Committed`), and `HistoryChained` bounds its forks by the failures.

`Commit` is atomic here. That is what `CasRegister.Write` promises, and
`FileMigrationStore` is checked against `CasRegister`: the two modules meet at
the register. A scan of the store is one step.

### CasRegister, FileMigrationStore

`CasRegister` is a value with atomic compare-and-set, set and delete calls
that may also fail and then have done nothing. `FileMigrationStore` implements
one entry with its lock: `MakeLock` (mkdir), `Stamp` (the owner token),
`CheckAge`, `RenameAway`, `PutBack` (breaking a stale lock), `TimeOut`,
`Compare`, `CheckOwner`, `Replace` (the rename of the new value), `Release`,
`Undo` (a lock directory that could not be stamped). The history variable
`displaced` tells whether a waiter has moved a live lock away and calls that may
have been misled by it are still going on. `Age` turns a lock stale.
It may do so only while no process holds it: a live holder's heartbeat
refreshes it and a process is not frozen for `stale_lock_seconds` between two
calls. `Window` merges the last ownership check and the rename when FALSE; the
code concedes that window in a comment (`migrate/file_store.py:28`).

POSIX semantics: a directory renames over an absent or an empty one, and
removing the lock of somebody else is possible whenever the path is the same.
Disk errors, name encoding and listing are not modelled.

### LmsSigner

`q[s]` is the index of the private key in memory, `saved` the serialised
copies that exist anywhere, `mark` the store's high-water mark, `signatures`
counts what was signed at each index. `sign()` is `CheckExhausted`, `ReadMark`,
`Compare`, `ReadIndex`, the reservation, `Sign` and `Advance`, or
`SignExhausted`: each a step of its own because the code holds no lock; threads
of one signer interleave in all of them. `Load` takes any saved copy, so
restoring a backup and running two signers of one key are both covered.

The store is the application's. `store` is "database" (`reserve()` compares
and raises the mark in one transaction), "lenient" (it records whatever it is
given, durably, which is all the protocol class says) or "memory", the
reference store of the module: `LookAtMark` and `RecordMark` are two steps,
since `InMemoryLmsStateStore.reserve` gets, compares and sets without a lock,
and the mark is gone with the process (`Dead`). `Serialised` says where no
reuse can be expected: over a database always; over the others while no call of
`sign()` began during another (`overlapped`) and, in memory, no process died.
Outside of it the model lets two threads sign at one index, and they do.

### StreamSealer, StreamOpener, ByteChannel

The bytes of a source are numbered, so a delivered sequence tells what was
lost, repeated or moved. `wire` is a sequence of units: a length field is two
units (enough to be cut in half), a ciphertext one unit a byte and one for the
tag. The sender's actions are the branches of `seal_stream` (`YieldPrelude`,
`ReadPiece`, `SealPending`, `KeepPending`, `SealSlice`, `CarryOver`, `SealLast`,
`Abandon`), or `SealChunk` for an application that cuts its own chunks;
all share `Accepts` and `Seal` with the counter limit. The opener's are `Pull`
(`_Reader` takes a piece from the transport), `ReadPrelude`, `ReadHeader`,
`ReadLength` (with the lookahead that tells the last frame) and `OpenFrame`.
`Tamper` cuts the wire, alters a unit, drops, repeats or swaps frames once the
sender has ended. Authenticated encryption is `Authentic`: a ciphertext
opens if it is whole, under the same key and data, at its counter and with
its last flag. That is the one assumption about cryptography.

`ByteChannel` is the promise: the receiver holds a prefix of what was sent,
and a verdict "complete" only with all of it.

### KeyUpgrade

`files` are the two outputs, `temps` and `baks` the temporary files and
backups of each call. `Prepare` stands for reading the input, choosing the
target and building the pair, which works or refuses; then `Look` (which
outputs exist), `WriteTemp`, `Backup`, `PlaceSecret` and `PlacePublic` (the two
renames), `OSError`, `RollBack` or `RollBackFails`, `CleanUp` (the finally
clause). `Interrupt` is KeyboardInterrupt, which passes the `except OSError`
by; `Kill` a process that dies. Unlinking in the finally clause does not fail,
and an interrupt falls between two calls, not between a call and the assignment
of its result.

`Overlap = FALSE` in the runs and the theorems: one call at a time. With TRUE,
`OnlyForceReplaces` fails at once, since the outputs are looked at before the
key is built and not again (listed as a hazard).

### KemTerms, Envelopes, Cnsa2, RewrapDirectory

A shared secret is a term: what it was computed from. `KemTerms` has `KEM` and
`HybridKEM` (`CombineSharedSecrets` takes both secrets, both ciphertexts and the
name; a Diffie-Hellman share fits every key of its curve, ML-KEM answers a
foreign ciphertext with an unrelated secret). An envelope holds its KEM
ciphertext and a ciphertext under `EnvelopeKey`, the derivation of its version;
`Openable` is what `open` compares before it decapsulates, `Opens` the tag as
well. `Cnsa2` rates names (`CheckSelection`, `CheckKeyDerivation`), collects
them (`Report`, `Compliant`) and lets them through (`Enforced`).

`RewrapDirectory`
runs `rewrap_directory` over the files in any order: `ReadFile`, then one of
`Skip`, `Recognise` (already migrated), `Refuse`, `DryRun`, `Write`; then
`Replace` or `WriteFails`. A run is in place or to a destination, dry or not,
with the right, a wrong or no new secret key, from one suite to any of the seven
an envelope may have (the six of `HYBRID_COMBINATIONS` and pure ML-KEM-1024).
`Update` is the application
replacing a file; in place it leaves the file that is being processed alone,
because the code reads and renames without a lock (a hazard). `Crash` forgets
the run, not the files. `expected_aad` is the callable that returns the file's
name. JSON and CBOM output are left out. `MigratedFilesMeetTheProfile` compares
what `compliance/cnsa2.py` says of the new key's name with the hash that is
really in the files.

### BackendAdapters, BackendRegistry

`BackendAdapters` says for each adapter and operation which answers are
possible, given what is installed and which mechanisms a build of liboqs has
(`LiboqsKEMAnswers`, `LiboqsSigAnswers`, `PycaAnswers`, `RustAnswers`), and
when a secret key goes to the other adapter (`LiboqsHandsOver`,
`PycaHandsOver`): an adapter sees the length of a key (`SecretBytes`), not its
form. `is_available()` of liboqs looks for one mechanism of each family
(`Probe`), whatever is asked for later; a build is any set of mechanisms. `BackendRegistry` runs users and probers: `Select` resolves the name
(`Resolve`: the environment replaces "auto" only), then `Look`, `Import` and
`Remember`, which are three steps of `_import_qs_py` (`why` tells whether the
extension is wanted to select it, to list it or to use it), `TryLiboqs`, `TryPyca`,
and `UseRust`, `UseLiboqs` or `UsePyca`; a hand-over is another selection by
name. `List` and `Clear` are the probers', `Install` is pip, at any moment.
`there`, `skipped`, `late` and `cleared` are history variables that the
properties need.

### SignatureTerms, KeyDocuments, Tokens, SignedTraffic

Bytes are sequences of pieces, so that concatenation, length prefixes and
borders are the code's: `V1Input` is `len(context) || context || rand ||
message`, `M2` the framed input of format 2. A primitive signature is who made
it, the native context and the bytes. `V1Accepts`, `V2Accepts`, `Verify` and
`VerifyRaw` are the verifiers with their checks in the order of the code;
`SignRefusal` and `RawSignRefusal` what the signers turn away (`sign_raw` a
context of more than 255 bytes, `signatures/core.py:607`). What
applications pass may be made of any pieces (`Alphabet`), the library's
own included: a message may begin with the byte that counts an empty
context, with the random prefix of another signature, or be the whole input of
another interface; a context may have the length that is the first letter of the
label of format 2 (`Label` begins with the byte 113). `Encoded` structures are
`Width` pieces long and end where they end, as JSON in base64url, CBOR and
length-prefixed names do; a token's begins with the letter e (101), a
Sig_structure with the head of an array of four (132).
`KeyDocuments` writes a pair as PEM, CBOR, bundle, JWK, RFC 9964 JWK and
COSE_Key, and has a definition for each reader. `Tokens` has the library's JWT,
the RFC 9964 JWT, COSE_Sign1 and the certificate co-signature.

`SignedTraffic` puts them together: a pair is written, read back (`Write`,
`Learn`, `Restore`), filed under the name of the other format (`Refile`),
stripped of its classical half (`Strip`), and signs through every interface
(`Send`) while the clock runs (`Tick`). Its properties ask about every
artefact, mode and context at once.

### AlgorithmNames, AuditPolicy, AuditGate

A name is the sequence of its parts between `+` and a flag for the suffix
`-v2`; `AlgorithmNames` holds the registries and `Kind`, the classification of
`classify_algorithm`. `AuditPolicy` is `AuditPolicy.evaluate` as definitions:
`SourceViolations` (a finding is a scanner rule and a file; exempt patterns
are the set of files they match), `Breaks` for one entry and one control,
`KeyViolations` with the limit of classical-only keys, `Unevaluated`, `Passed`.
`AuditGate` makes a run's inputs the state: `Write` and `Remove` a finding,
`GiveInventory` and `DropInventory`, `Record` and `Retire` an entry, `Move` a
key along the tables of `MigrationStates`, `Adopt` a policy. The exit codes are
functions of that state: `CiGate`, `MigrateScan`, `AuditScan` (for every pair of
`--min-severity` and `--fail-on`) and `Compliance`, which `OverallLevel` decides.


## 4. Runs

Distinct states are those of the complete search with the given bounds.

| run | states | asks | shows |
|---|---|---|---|
| `manager` | 92,468 | 3 threads in 2 processes on a compare-and-set store, or 2 threads in one on a dict; 5 initial contents, 1 failure | with compare-and-set one legal ledger; a dict's log forks at most once for each failure and is never behind the state; the state leaves the tables only by a call whose read was swallowed; the trail agrees with the outcomes; quiet entries agree; races lost mean progress; calls end |
| `file_store` | 194,152 | 3 processes, all operations, a free lock or one left over, 1 death, lock aging | every call is atomic or wrote nothing, except an overwrite while a live lock is displaced; a lock is left only by a death or a put-back; calls end |
| `lms_signer` | 389,358 | 3 threads, 2 signers, capacity 3, 3 kinds of store, 1 death, 1 store error | where the store or the calls serialise: no reuse, mark ahead of every signature, the reserved index signs |
| `stream` | 99,204 | chunks of 2, 3 counters, 8 bytes, 1 alteration | nonces, placement, bounded memory, prefix delivery, intact streams open, the opener ends |
| `key_upgrade` | 353,114 | 3 calls one after the other, every failure | no leftovers, true outcomes, no replacement without force, secrets kept |
| `rewrap` | 1,975,512 | 2 files, 2 runs, 1 update, new keys of all 7 suites | nothing lost, reports true, nothing rewritten twice, nothing written dry, the profile true of the files |
| `gate` | 44,544 | 3 findings, 2 keys, 4 names, the presets and 20 policies one field from two of them | no stricter policy and no worse state opens the gate; rejecting controls are listed; the commands agree, for a further finding of every rule |
| `backends` | 1,164,365 | 1 user with 1 call, 1 prober with 2, 18 requests, 5 names, 2 overrides, 3 builds | keys of either form work where both can take them, the best backend is picked, a cleared failure stays cleared, good signatures pass, calls end |
| `messages` | 685,856 | 4 suites, 2 artefacts, 4 contexts (of 0, 109, 113 and 256 pieces), 3 messages, 3 sets of claims, lifetimes above, at and below zero, a clock of 3 | accepted exactly as signed, no signature passes for another but in the named cases, documents carry the key, tokens lapse |
| `stale_put_back`, `lms_crash`, `key_upgrade_interrupt` | | one claim each | the claim is violated: see Findings |

Type invariants are in no configuration; those that proofs rest on are
theorems, the others (`FileMigrationStore`, `KeyUpgrade`, `StreamOpener`) can be
checked by adding `INVARIANT TypeOK`.

**Why the bounds are enough.** Two threads under one process lock and one
outside it are every relation two writers can have; with one call each and two
attempts a thread loses a race, loses the last one, and wins after losing. The
initial stores are the five cases `ReadHistory` and `ReadLegacy` distinguish.
A stale lock needs a dead owner, one process that breaks it, one that breaks
the lock taken meanwhile, and one that commits in between: a lock left over from
an earlier process and three that live, one of which may still die. An LMS key of three
has a first, a middle and a last index, and the overrun is reached by threads
that pass the exhaustion check together; three threads on two signers are every
relation two of them can have. The constraint `Serialised` of that run cuts the
states in which the properties promise nothing, and it never becomes true again. With chunks of 2 and pieces up to 5,
pieces are empty, shorter than, equal to, and longer than a chunk, and span two;
3 counters and 8 bytes pass the limit with a byte to spare. The transport
delivers one unit, four (which straddle frames) or twelve at a time, and the
longest wire is more than a frame and the largest piece, so an opener that
buffered ahead would be caught. Three key upgrades
let a failed call be followed by a forced and an unforced one. For the rewrap,
the second run meets everything a first run, a crash or an update may leave;
the second file is what a crash leaves for later. In `gate` two keys pass a
limit of zero and of one, the findings are one of each severity, the names one
of each kind with one below each level; the symmetry of the keys is used there
and nowhere else, as the run checks no liveness.
In `backends` the only thing threads share is one remembered failure, so a user
whose probe fails, a prober that clears, and an installation between any two of
their steps are all it takes; the prober's second call lists again after it has
cleared, or clears after it has listed. The requests have keys of both forms of
algorithms that liboqs is probed for and of others, of one pyca lacks and of one
only liboqs knows; the builds are complete, without ML-DSA-65 and ML-KEM-1024, or
without ML-KEM-768 and ML-DSA-87, so in each family the probed mechanism and the
one asked for come apart both ways. In
`messages` a confusion of two artefacts needs two. Of the bytes that could be taken for others the run has the nearest:
a message with the length of the empty context in front (its raw signature is a
v1 signature), one with the randomness of another signature in front, and a
context of 113 pieces that goes on as the input of a v2 classical half does; the
fourth context is one piece too long to sign or to verify. Without any one of
these three exceptions the property is violated there. The contexts of 101 and
132 pieces, which need longer encodings (`Width`), are covered by the
proof only. The documents are written before anything is sent,
which changes nothing but the size of the search. The clock passes every expiry.

**Fairness.** `FairSpec` of the manager: weak fairness of each thread's steps
(threads run; nothing has to crash, fail or be called). Of the file store:
weak fairness of each process's steps, and strong fairness of `TimeOut`, which
is enabled at each failed attempt and not in between: the deadline is a
monotonic clock that passes while others hold the lock. Of the stream:
weak fairness of the opener, for a consumer that keeps iterating; the sender
and the transport owe nothing, but the liveness property only speaks of a
sender that has ended. Of the backends: weak fairness of each thread's steps
inside a call. Of the messages: weak fairness of the clock, nothing of the
sender or receiver. The other modules claim no liveness and assume none;
`CHECK_DEADLOCK FALSE` appears where the bounded number of calls, runs, bytes
or ticks really ends; the others have a `Rest` or `Done` step enabled only when
nobody is inside a call, so that a stuck call is reported.


## 5. Findings

- **`stale_put_back`** (`migrate/file_store.py:320`). A process renames a live
  lock away by mistake, another locks, writes and releases, the first puts the
  lock back: its holder passes the ownership check and overwrites a value it
  never compared. Two `compare_and_set` calls return True, one update is lost.
- **`lms_crash`** (`signatures/stateful.py:298`). The comments say that a death
  between reservation and signature costs one index. Every saved key is
  then behind the mark and `load` refuses them all: it costs the whole key.
- **`key_upgrade_interrupt`** (`migrate/keyfile.py:443`). Ctrl-C between the
  two renames is no `OSError`: nothing is rolled back and the finally clause
  deletes the backup of the replaced secret key.

What the properties had to except, without a run of its own:

- `_legacy_current` (`migrate/state.py:423`) takes any exception of the store
  for an unknown key. A key without a history whose `_current` entry cannot be
  read for a moment is then moved without the stale check: the new record may
  contradict the state the key was in.
- `LmsSigner.sign` holds no lock, and `InMemoryLmsStateStore.reserve` none
  either: two threads of one signer may sign at one index. What prevents it is a
  store whose `reserve()` compares and raises in one step, or one call at a time.
  The protocol (`signatures/stateful.py:118-138`) asks for exclusion between
  signers, not between the threads of one.
- `is_available()` of liboqs looks for ML-KEM-768 and ML-DSA-65 only
  (`backends/liboqs.py:568,847`). A build with ML-KEM-1024 and without ML-KEM-768
  refuses an expanded ML-KEM-1024 key that pyca hands over, although
  `backends/pyca.py:13-15` says a key works with either backend; one with
  ML-DSA-65 and without ML-DSA-87 calls a good ML-DSA-87 signature bad
  (`liboqs.py:752-758`), instead of unsupported.
- What is signed for one purpose passes for another in the cases of
  `MayPassFor`: `sign_raw` signs any bytes under the native contexts of the other
  interfaces (`signatures/core.py:605-611`); a v1 input begins with the length of
  its context (`signatures/hybrid.py:494`), so a context of 101, 113 or 132 bytes may go on
  as an RFC 9964 token, the classical half of a v2 signature or a COSE object does;
  and the randomness of a hedged v1 signature may be taken for the start of the
  message of a deterministic one. `signatures/_v2.py:11-12` and `:20-23`
  admit the last two of format 1.
- `keys_by_state` and `needs_migration` (`migrate/state.py:475`) enumerate
  `_current` entries. A death between the commit of the history and the first
  `_current` write leaves a key whose state `get_current_state` knows and no
  scan lists; `QuietStoreIsInStep` therefore speaks of runs without failures.
- `verify()` of the Rust adapter (`backends/rustcrypto.py:281`) answers False
  when the extension cannot be imported, so a good signature is called bad after
  a failed probe was remembered too late. "auto" may choose that adapter for
  algorithms and key forms it does not have.
- A deterministic v1 signature of a hybrid contains a v1 signature of its
  ML-DSA half alone, which verifies once `strip_classical_component` has made a
  key of that half: only format 2 signs the name of the suite.
- `JWTSigner` takes a negative `expires_in` for none and gives a token without
  `exp`; `StandardJwt.sign` refuses it. An `exp` of `Infinity` never lapses in
  either. `qs-version` of a token or a JWK is not looked at.
- A key read from an RFC 9964 JWK or a COSE_Key has state HYBRID_TRANSITION,
  and a bundle's halves are not compared.
- `enforce` (`compliance/cnsa2.py:415`) lets names through that the registries
  do not have, such as `ML-KEM-1024-v2`, because it drops the suffix first; and
  what is strict there (pure suites only) is refused by an audit policy with
  `hybrid_required`.


## 6. What is proved

Every safety and action property of the passing runs is a theorem: TLC shows it
on the instance of the run, TLAPS for every value of the constants that
satisfies the named assumptions of the module, which TLC evaluates in the runs.
Each proof has the same shape: an inductive invariant in named parts, a lemma
that it holds initially, a lemma that each action preserves it (or each part, in
layers that use the parts before), and the theorem by temporal logic.

| module | theorems | assumption and argument |
|---|---|---|
| `MigrationManagerProofs` | `TypeCorrect`, `ChainHolds`, `LedgerRefined`, `OutcomesHold`, `LogHolds`, `ProgressHolds`, `StateMoves`; under `InheritedInStep` also `TrailBreaksOnlyByFailure`, `QuietInStep` | `ManagerAssumption`, `InheritedAssumption` (inherited histories are chained), `FreshIdAssumption` (no inherited record has the identity of a call to come: the code takes a fresh uuid). `IInv` says what a thread about to commit knows: its request was validated against the last record of its *snapshot*, and `Commit` is enabled only if the history still equals it. `Inv` adds that the per-key lock keeps two writers of a dict apart (`Exclusive`); where each record came from (`Trail`: an identity is in one place of one history, of a thread that is past its commit, and what a manager copied to `_current` is a record of the history); and what a thread that has read may have missed (`Reading`, with the races it lost in `RacesLost`, each to another writer's record). `StateMoves` excepts the one commit that takes an unread state for an unknown key (`MovesUnseen`). `InStep` adds that the breaks of a dict's trail and the copy that is still behind never outnumber the failures. |
| `FileMigrationStoreProofs` | `TypeCorrect`, `AtomicUnlessDisplaced`, `AtomicWithoutDeaths`, `AtomicWithoutComparing`, `NoLockStays` | `StoreAssumption`. `Exclusive`: a process past its stamp owns the lock, and a process that compared still sees what it expected. The one step that breaks it is `PutBack`, so it is an invariant only of the states without a displaced lock (`Settled`); what remains while one is displaced is that a step of the register replaces a value it did not compare. `Attended`: until something is displaced or somebody dies every lock belongs to a call in progress, or to a process that died before the start. |
| `SignatureProofs`, part 1 (`LmsSigner`) | `TypeCorrect`, `NeverReused`, `IssuedIsMarked`, `ReservationHolds`, `DatabaseSuffices` | The properties speak of the `Serialised` states, and `Orderly` holds in those: no state that is not serialised leads back (`WasSerialised`). No reuse is not inductive: `KeysBehindMark` says no key is ahead of the mark, `DeadIndex` that an index reserved and not signed is out of every key's reach, `InSign` what each step of `sign` knows, `Exclusive` what a store without an atomic `reserve()` needs of its callers, which `OneByOne` gives as long as no call began during another. `DatabaseSuffices` drops `Serialised` where the store is a database. |
| `SignatureProofs`, part 2 (`SignedTraffic`) | `DocumentsTrue`, `AcceptedAsMeant`, `NeverShared` | `TrafficAssumption` (approved suites; contexts and messages are any sequences of bytes, none of them one of the two contexts the library keeps for itself, no message is the CBOR nil; the clock outlasts every lifetime), `WidthAssumption` (an encoded structure has at least one piece), `SkewAssumption`. `TrafficInv`: the pairs are pairs and the mail is of one of them (`KeysOk`), every artefact is what one of the interfaces makes (`Genuine`) and is signed under the ML-DSA half that is still held (`SentOk`). See below. |
| `StreamOpenerProofs` | of the sender alone `NonceUsedOnce`, `EveryByteInPlace`, `CarryStaysSmall`; of both ends `ChannelRefined`, `ChunksAsSealed`, `MemoryStaysBounded`, `IntactStreamsOpen` | `Counting` ties the counter to the number of chunks (and the exception at the limit), `InOrder` every byte in the carry-over and in the piece to its place in the source, `ChunkShape` bounds each chunk by what was taken. On top: what the opener delivered is a prefix of the sealed chunks (`Opened`), whatever `Tamper` did, any number of times; what is on its way are units the sealer wrote (`Wired`), so a length field it believes is bounded (`Held`). `Layout` is for the undisturbed stream: buffer, transport and what is not yet sent, put together, are exactly the frames of the chunks that are not opened yet (`FramesOf`), so each of the opener's reads ends where a frame of the sealer's does, and `EndMarked` that the last one is the one with the flag. |
| `KeyUpgradeProofs` | `LeavesNothing`, `OutcomesAreTrue`, `ForceOnly`, `SecretsKept` | `~Overlap`. `DiskAt` says what the outputs and backups hold at each step of a call, `Fresh` that no call finds a pair that is not written yet. |
| `RewrapDirectoryProofs` | `NothingIsLost`, `ReportsAreTrue`, `NothingElseWritten`, `ProfileIsMet` | `RewrapAssumption` (the suites are suites of the registries), `ContentAssumption` (envelopes, junk and absence are different things). The invariant follows the file in hand from `ReadFile` to `Replace`: in place it is still what was read, and every envelope is `Envelope(f, n, k)` or `Rewrap` of one. That what is rewrapped opens, under the new key only, is a lemma about the terms of `KemTerms` and `Envelopes`; that the profile agrees with the hash in the file is one about the names of `Cnsa2`, for all seven suites (`SuiteRated`; what the six hybrids have in common is `HybridShape`). |
| `BackendRegistryProofs` | `Typing`, `BestIsPicked`, `ClearingIsFinal`, `EitherFormWorks`, `GoodIsAccepted` | `RegistryAssumption`. `Roles` and `Held` say who is looking for the extension and what a user holds while its call lasts, `Selected` that an adapter in use is installed and has the mechanism it was asked for, `LateProbes` and `Forgotten` that after a clear, or after an import that worked, only a late probe remembers a failure, `Preferred` why "auto" passed a backend by. What adapters answer are lemmas (`LiboqsDoes`, `PycaDoes`, `LiboqsRejects`, ...), for every algorithm of the module and every set of mechanisms a liboqs may be built with; that an adapter takes a key of the other's form for what it is rests on the lengths (`LengthsDiffer`, `FormsSeen`). |
| `AuditGateProofs` | `Typing`, `NeverOpens`, `NoSilentControl`, `CommandsAlike` | `AuditAssumption` (well-formed policies, finitely many keys). Violations only grow from one side to the other: `SourceMonotone` for findings, `BreaksMonotone` for one entry and one control, and `ClassicalKeysRejected` for the two controls that share the classical-only keys, by their number. `PresetsOrdered`: the presets, in the order of the guide, are ordered field by field. `ControlsCover`: every rule of the scanner is behind a control of the report, so a finding of it is not compliant (`NotCompliant`). |

**What the signed bytes say.** Each of the three properties of `SignedTraffic`
holds of the terms that `TrafficInv` lets `sent` and `mail` contain, so their
proofs are mostly about definitions. `DocumentsTrue` reads each document of a
pair with each reader. `AcceptedAsMeant` has one lemma per interface
(`MessageAsMeant`, `RawAsMeant`, ...): the verifier rebuilds the bytes from its own
context and the message, and they equal those that were signed only if context,
randomness and message do. This is framing: `V1Framed` and `M2Framed`, which
both follow from `CatApart` (of two equal concatenations with first parts of
equal length the parts are equal), because the length prefix says where the
context ends. An application's message may well begin like a random
string; that changes nothing here, because the verifier knows from the artefact
whether there is one. That all
artefacts are of one ML-DSA half is needed: a v1 hybrid signature does not sign
the name of its suite, so of two keys that share a half it would pass for
either.

`NeverShared` is about any bytes. A primitive signature of an artefact is of one
of six kinds (`Origin`): of a v1 input, of a v2 input, of the classical half of one, of
raw bytes, of an RFC 9964 signing input or of a Sig_structure; `EveryOrigin`
says so, one lemma for each interface (`MessageOrigin`, `JwtOrigin`, ...). Two of
different kinds are of different bytes because of the native context, of the half that
signs or of how the bytes begin (`NeverBoth`), or they are among the exceptions
(`RawPasses`, `V1Others`); two of one kind say the same (`BothV2`, `BothStandard`,
`BothCose`), but for the boundary between randomness and message in v1
(`BothV1`). The library's own contexts and bodies take part in no exception: its contexts
are too short (`ContextsDiffer`) and what it signs under them begins with a
letter, not with randomness (`JwtBodies`, `CosigBodies`). `SharedSaysTheSame` puts
the pieces together.

The first attempt to prove `AcceptedAsMeant` failed, for a
good reason: the model had `sign_raw` sign under contexts of any length,
which a verifier of the library then refuses. The code refuses them too; the guard
(`RawSignRefusal`) is now in the model, and a context that long in the run.

**Theorems with a hypothesis.**

- `AtomicUnlessDisplaced` has no hypothesis: the exception is in the property, and the
  run `stale_put_back` shows that it is needed. It is gone if nobody has died
  before or dies inside a call (`AtomicWithoutDeaths`: `InitialLocks` has `NoLock`
  only and `MaxCrashes` is 0), or nobody uses `compare_and_set`
  (`AtomicWithoutComparing`): these two prove that the store implements
  `CasRegister`, without an exception.
- `DatabaseSuffices`: all stores of the run are databases. Then nothing is asked of
  the callers.
- `InheritedInStep`: a store that is taken over has no copy behind its
  history, as every store has that quiet managers leave. With one that is
  behind, the first writer forks the trail without any failure of its own. All
  stores of the run `manager` satisfy it.
- `~Overlap` of the key upgrade: one call at a time.

The modules with theorems reach no recursive operator.

**Only model-checked.** Liveness (`CallsReturn` twice, `OpenerEnds`,
`CallsEnd`, `TokensLapse`), which depends on fairness and enabledness and is out
of the prover's reach.


## 7. What is not promised or not modelled

- That a quiet `_current` copy equals the last record is a property of a dict
  only: with compare-and-set two
  commits may write their `_current` copies in the other order, which the
  readers tolerate because the history is authoritative.
- Cryptography is ideal: a ciphertext opens exactly where the code's inputs to
  AES-GCM agree, a signature is made by whoever signs. Encodings appear only
  where something depends on them (the length fields of a stream, and how what
  is signed begins).
- Time is an event (`Age`, `TimeOut`), except for tokens, where it is a small
  number.
- One entry of a file store, one LMS key, one stream, one pair of outputs at a
  time: the code shares nothing between two of them but the directory.
- A `StreamSealer` has one user; its documentation promises no more, and a
  shared one may repeat a nonce.
- A backend that another process or a later release adds; the bytes that go to
  the C and Rust libraries; what the Rust extension does with arguments outside
  its table is left open (`RustAnswers`).
- Applications keep off the two contexts the library uses for its tokens and
  certificates (`JwtContext`, `CosigContext`), as nothing but convention makes
  them: whoever passes one to `sign` signs what those interfaces sign.
- `OnlyForceReplaces` is about calls of the key upgrade one after the other: the look
  at the outputs is not repeated before the renames. `PicksBest` excuses a
  remembered failure and a liboqs without the mechanism that is looked for,
  `TokensLapse` a negative `expires_in`: in these three the code does what the
  property excepts.
- X-Wing, the TLS helpers, certificate assembly, zeroization, `describe_key`,
  the serialisation of envelopes and `inspect`, SBOM and CBOM, shims, exceptions:
  layout, or calls of other libraries.
- `GateIsMonotone` compares policies by what they ask for. A policy with
  `max_classical_only_keys` set replaces the check of each key
  (`docs/guides/audit.rst` says so), so setting a limit above zero beside
  `allow_classical_only=False` is a looser policy. `Stricter` orders the two
  controls by how many classical-only keys they take together.
- `RejectingControlsAreListed` excepts `allow_classical_only` and unknown
  names: the list of unevaluated controls has neither, so
  `require_inventory=True` with every other key control switched off passes
  without an inventory although classical-only keys would be rejected.
- `--min-severity` of the scan commands also hides findings from `--fail-on`:
  with the first above the second the run passes. The docstrings of the
  commands describe it, the help text of `--fail-on` does not.
- Of `audit.cli` the commands `sbom`, `requirements` and `cbom` are
  not modelled (the exit code of `cnsa2` is `Compliant`), nor is the syntax-tree walk of the scanner. A file that does not
  parse has no findings, which is the step `Remove`.
