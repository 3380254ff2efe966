---------------------------- MODULE WalletLifecycle ----------------------------
(***************************************************************************)
(* The wallet directory and the commands that create, extend, migrate and  *)
(* erase it: init, init-fvk, generate-account, import-ufvk, upgrade and    *)
(* reset (src/commands/wallet/), with keys.toml (src/config.rs) and the    *)
(* databases (src/data.rs).  The user runs one command at a time, and a    *)
(* command may fail or be killed between any two of its steps.             *)
(*                                                                         *)
(* A command that is refused before it changes anything is not a step.     *)
(* data.sqlite is its set of accounts and whether its tables exist;        *)
(* blockmeta.sqlite and the blocks folder are one flag.  SQLite is the     *)
(* backend.                                                                *)
(***************************************************************************)
EXTENDS Integers

CONSTANTS
    Seed,          \* the mnemonics a user may enter, or init generate
    Ufvk,          \* the viewing keys a user may import
    NoSeed,
    Name,          \* account names
    MaxAccounts,   \* bound: accounts derived from one seed
    MaxStops       \* bound: failing calls, and crashes

ASSUME ConstantsAssumption ==
    /\ NoSeed \notin Seed
    /\ Seed \cap Ufvk = {}
    /\ MaxAccounts \in Nat \ {0}
    /\ MaxStops \in Nat

(* An account of data.sqlite.  "from" says where its history begins: the       *)
(* birthday in keys.toml, the tip less 100 blocks, or a birthday of its own.   *)
Account == [key : Seed \cup Ufvk, index : 0..(MaxAccounts - 1), name : Name,
            from : {"configured", "recent", "given"}]

VARIABLES
    identity,   \* the age identity file: "absent", "partial" or "whole"
    keys,       \* keys.toml; an empty one is read as a wallet without mnemonic
    cache,      \* blockmeta.sqlite has its table
    ready,      \* data.sqlite has its tables
    accounts,   \* its accounts
    cmd, pc,    \* the command, and where it stands
    draft,      \* the account it will create
    result,     \* how the last command ended, "none" while one runs
    before,     \* history: the accounts when it began
    stops

dbs == <<cache, ready, accounts>>
vars == <<identity, keys, cache, ready, accounts, cmd, pc, draft, result, before, stops>>

Commands == {"init", "init-fvk", "reset", "generate-account", "import-ufvk", "upgrade"}

Exit(r) == pc' = "off" /\ result' = r
Goto(l) == pc' = l /\ result' = "none"

\* Derived from the seed of keys.toml, which the identity file opens.
SeedReadable == keys.seed # NoSeed /\ identity = "whole"

NewAccount(k, n, f) == [key |-> k, name |-> n, from |-> f]

-----------------------------------------------------------------------------
(* The commands begin.  Their arguments are any of the constants. *)

Begin(c, first, acct) ==
    /\ pc = "off"
    /\ cmd' = c
    /\ Goto(first)
    /\ draft' = acct
    /\ before' = accounts
    /\ UNCHANGED <<identity, keys, dbs, stops>>

BeginInit ==
    \E s \in Seed, n \in Name : Begin("init", "identity", NewAccount(s, n, "configured"))

BeginInitFvk ==
    \E u \in Ufvk, n \in Name : Begin("init-fvk", "keys", NewAccount(u, n, "configured"))

BeginImportUfvk ==
    \E u \in Ufvk, n \in Name : Begin("import-ufvk", "account", NewAccount(u, n, "given"))

BeginGenerateAccount ==
    /\ SeedReadable
    /\ \E n \in Name :
           Begin("generate-account", "account", NewAccount(keys.seed, n, "recent"))

BeginUpgrade ==
    /\ keys.file # "absent"
    /\ Begin("upgrade", "cache", draft)

\* Mutant: the account restored starts at the tip, as a generated one does.
BeginResetAtTip ==
    /\ keys.file # "absent" /\ ready
    /\ \E a \in accounts : Begin("reset", "erase_cache", NewAccount(keys.seed, a.name, "recent"))

\* reset needs an account, takes the name of the first the database lists, and
\* the birthday of keys.toml.
BeginReset ==
    /\ keys.file # "absent" /\ ready
    /\ \E a \in accounts :
           Begin("reset", "erase_cache", NewAccount(keys.seed, a.name, "configured"))

-----------------------------------------------------------------------------
(* init: the identity file. *)

\* Mutant: the lines of the new identity are still unwritten when init goes on.
FindIdentityUnflushed ==
    /\ pc = "identity"
    /\ \/ identity # "partial" /\ Goto("keys")
          /\ identity' = IF identity = "absent" THEN "partial" ELSE identity
       \/ identity = "partial" /\ Exit("error") /\ UNCHANGED identity
    /\ UNCHANGED <<keys, dbs, cmd, draft, before, stops>>

\* Use the identity file, or create_new it.
FindIdentity ==
    /\ pc = "identity"
    /\ \/ identity = "whole" /\ Goto("keys") /\ UNCHANGED identity
       \/ identity = "absent" /\ Goto("write_identity") /\ identity' = "partial"
       \/ identity = "partial" /\ Exit("error") /\ UNCHANGED identity
    /\ UNCHANGED <<keys, dbs, cmd, draft, before, stops>>

WriteIdentity ==
    /\ pc = "write_identity"
    /\ identity' = "whole"
    /\ Goto("keys")
    /\ UNCHANGED <<keys, dbs, cmd, draft, before, stops>>

(* init and init-fvk: keys.toml. *)

\* Mutant: keys.toml is opened with create and truncate, not create_new.
CreateKeysAnyway ==
    /\ pc = "keys"
    /\ keys' = [file |-> "empty", seed |-> NoSeed]
    /\ Goto("write_keys")
    /\ UNCHANGED <<identity, dbs, cmd, draft, before, stops>>

CreateKeys ==
    /\ pc = "keys"
    /\ \/ keys.file = "absent" /\ Goto("write_keys")
          /\ keys' = [file |-> "empty", seed |-> NoSeed]
       \/ keys.file # "absent" /\ Exit("error") /\ UNCHANGED keys
    /\ UNCHANGED <<identity, dbs, cmd, draft, before, stops>>

\* Mutant: init-fvk too saves its key where the mnemonic goes.
WriteKeysOfAll ==
    /\ pc = "write_keys"
    /\ keys' = [file |-> "whole", seed |-> draft.key]
    /\ Goto("cache")
    /\ UNCHANGED <<identity, dbs, cmd, draft, before, stops>>

WriteKeys ==
    /\ pc = "write_keys"
    /\ keys' = [file |-> "whole",
                seed |-> IF cmd = "init" THEN draft.key ELSE NoSeed]
    /\ Goto("cache")
    /\ UNCHANGED <<identity, dbs, cmd, draft, before, stops>>

(* reset: erase_wallet_state logs the removals that fail and goes on. *)

EraseCache ==
    /\ pc = "erase_cache"
    /\ cache' \in {cache, FALSE}
    /\ Goto("erase_data")
    /\ UNCHANGED <<identity, keys, ready, accounts, cmd, draft, before, stops>>

EraseData ==
    /\ pc = "erase_data"
    /\ \/ UNCHANGED <<ready, accounts>>
       \/ ready' = FALSE /\ accounts' = {}
    /\ Goto("decrypt")
    /\ UNCHANGED <<identity, keys, cache, cmd, draft, before, stops>>

\* Only now does reset learn whether there is a seed to start again from.
DecryptSeed ==
    /\ pc = "decrypt"
    /\ IF SeedReadable THEN Goto("cache") ELSE Exit("error")
    /\ UNCHANGED <<identity, keys, dbs, cmd, draft, before, stops>>

(* init_dbs, and the end of every command. *)

InitCache ==
    /\ pc = "cache"
    /\ cache' = TRUE
    /\ Goto("data")
    /\ UNCHANGED <<identity, keys, ready, accounts, cmd, draft, before, stops>>

InitData ==
    /\ pc = "data"
    /\ ready' = TRUE
    /\ IF cmd = "upgrade" THEN Exit("ok") ELSE Goto("account")
    /\ UNCHANGED <<identity, keys, cache, accounts, cmd, draft, before, stops>>

\* i is the index of the next account of k: 0 for the first, else one more than
\* the last.
IsNextIndex(k, i) ==
    /\ \A a \in accounts : a.key = k => a.index < i
    /\ i = 0 \/ \E a \in accounts : a.key = k /\ a.index = i - 1

\* create_account for a seed, import_account_ufvk for a viewing key, which may
\* not be there yet.
CanAdd(k, i) == ready /\ IsNextIndex(k, i) /\ (k \in Ufvk => i = 0)

AddAccount ==
    /\ pc = "account"
    /\ \/ \E i \in 0..(MaxAccounts - 1) :
              /\ CanAdd(draft.key, i)
              /\ accounts' = accounts \cup
                     {[key |-> draft.key, index |-> i, name |-> draft.name,
                       from |-> draft.from]}
              /\ Exit("ok")
       \/ /\ \A i \in 0..(MaxAccounts - 1) : ~CanAdd(draft.key, i)
          /\ Exit("error") /\ UNCHANGED accounts
    /\ UNCHANGED <<identity, keys, cache, ready, cmd, draft, before, stops>>

\* A call fails, or the process is killed, between two steps.
Stop ==
    /\ pc # "off"
    /\ stops < MaxStops
    /\ stops' = stops + 1
    /\ Exit("error")
    /\ UNCHANGED <<identity, keys, dbs, cmd, draft, before>>

-----------------------------------------------------------------------------
Init ==
    /\ identity \in {"absent", "whole"}
    /\ keys = [file |-> "absent", seed |-> NoSeed]
    /\ cache = FALSE /\ ready = FALSE /\ accounts = {}
    /\ cmd = "init" /\ pc = "off" /\ result = "none"
    /\ \E s \in Seed, n \in Name : draft = NewAccount(s, n, "configured")
    /\ before = {} /\ stops = 0

BeginCommand ==
    \/ BeginInit \/ BeginInitFvk \/ BeginImportUfvk
    \/ BeginGenerateAccount \/ BeginUpgrade \/ BeginReset

RunCommand ==
    \/ FindIdentity \/ WriteIdentity \/ CreateKeys \/ WriteKeys
    \/ EraseCache \/ EraseData \/ DecryptSeed
    \/ InitCache \/ InitData \/ AddAccount

Next == BeginCommand \/ RunCommand \/ Stop

Spec == Init /\ [][Next]_vars

-----------------------------------------------------------------------------
TypeOK ==
    /\ identity \in {"absent", "partial", "whole"}
    /\ keys \in [file : {"absent", "empty", "whole"}, seed : Seed \cup {NoSeed}]
    /\ cache \in BOOLEAN /\ ready \in BOOLEAN
    /\ accounts \subseteq Account
    /\ cmd \in Commands
    /\ pc \in {"off", "identity", "write_identity", "keys", "write_keys", "cache",
               "data", "account", "erase_cache", "erase_data", "decrypt"}
    /\ draft \in [key : Seed \cup Ufvk \cup {NoSeed}, name : Name,
                  from : {"configured", "recent", "given"}]
    /\ result \in {"none", "ok", "error"}
    /\ before \subseteq Account /\ stops \in 0..MaxStops

\* Whatever was run, retried or killed, an account with a spending key comes from
\* the mnemonic that keys.toml holds: keys.toml is written before the account,
\* once, and no second init replaces it.
AccountsMatchKeys == \A a \in accounts : a.key \in Seed => a.key = keys.seed

\* A mnemonic is on disk only if the identity that decrypts it is.
MnemonicCanBeRead == keys.seed # NoSeed => identity = "whole"

\* A reset that reports success leaves an account of the wallet's seed, scanned
\* from the wallet's birthday, under a name the wallet had.
ResetRestartsWallet ==
    pc = "off" /\ cmd = "reset" /\ result = "ok" =>
        \E a \in accounts, b \in before :
            a.key = keys.seed /\ a.from = "configured" /\ a.name = b.name

\* commands/wallet.rs: reset "does not preserve imported UFVKs"; it keeps the
\* accounts derived from the seed.
ResetKeepsDerivedAccounts ==
    pc = "off" /\ cmd = "reset" /\ result = "ok" =>
        \A b \in before : b.key \in Seed =>
            \E a \in accounts : a.key = b.key /\ a.index = b.index

\* reset.rs: "Erase the wallet state (excluding key material)": a reset that ends
\* in an error of its own, with no failing call, leaves the viewing keys.
FailedResetKeepsKeys ==
    pc = "off" /\ cmd = "reset" /\ result = "error" /\ stops = 0 =>
        \A b \in before : b.key \in Ufvk => \E a \in accounts : a.key = b.key

=============================================================================
