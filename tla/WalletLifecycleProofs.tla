------------------------- MODULE WalletLifecycleProofs -------------------------
(***************************************************************************)
(* What the commands promise of the wallet directory, for any seeds, keys  *)
(* and names, any number of accounts and of failures.  One inductive       *)
(* invariant says what a running command knows of the account it will      *)
(* create and of the files written before it.                              *)
(***************************************************************************)
EXTENDS WalletLifecycle, TLAPS

\* The steps at which the account to be created is decided and not yet there.
Creating == {"cache", "data", "account"}

\* init writes keys.toml after the identity file, and the account after both.
DraftIsOfSeed ==
    /\ pc \in Creating /\ draft.key \in Seed /\ cmd # "upgrade" => draft.key = keys.seed
    /\ pc \in Creating /\ cmd # "upgrade" => draft.key \in Seed \cup Ufvk
    /\ pc = "account" => cmd # "upgrade"

\* keys.toml is written only where there was none, and then is empty.
KeysWrittenOnce == pc = "write_keys" => keys = [file |-> "empty", seed |-> NoSeed]

\* No file, or an empty one, has no mnemonic.
MnemonicNeedsFile == keys.seed # NoSeed => keys.file = "whole"

IdentityFirst ==
    pc \in {"keys", "write_keys"} /\ cmd = "init" => identity = "whole"

\* Who may be where.
Writers ==
    /\ pc \in {"identity", "write_identity"} => cmd = "init"
    /\ pc \in {"keys", "write_keys"} => cmd \in {"init", "init-fvk"}
    /\ pc \in {"erase_cache", "erase_data", "decrypt"} => cmd = "reset"
    /\ pc # "off" /\ cmd = "init" => draft.key \in Seed
    /\ pc # "off" /\ cmd = "init-fvk" => draft.key \in Ufvk

\* The account reset will create, from its first step to its last.
ResetDraft ==
    cmd = "reset" /\ pc # "off" =>
        /\ draft.key = keys.seed /\ draft.from = "configured"
        /\ \E b \in before : b.name = draft.name

IInv ==
    /\ TypeOK
    /\ AccountsMatchKeys /\ MnemonicCanBeRead /\ ResetRestartsWallet
    /\ DraftIsOfSeed /\ KeysWrittenOnce /\ MnemonicNeedsFile /\ IdentityFirst
    /\ Writers /\ ResetDraft

-----------------------------------------------------------------------------

\* The files and accounts of a new directory, and a command that has not begun.
LEMMA InitEstablishes == Init => IInv
<1> SUFFICES ASSUME Init PROVE IInv
  OBVIOUS
<1> USE ConstantsAssumption DEF Init, Commands, Creating, NewAccount
<1>1. TypeOK
  <2>1. draft \in [key : Seed \cup Ufvk \cup {NoSeed}, name : Name,
                  from : {"configured", "recent", "given"}]
    OBVIOUS
  <2>2. keys \in [file : {"absent", "empty", "whole"}, seed : Seed \cup {NoSeed}]
    OBVIOUS
  <2>3. cache \in BOOLEAN /\ ready \in BOOLEAN
    BY Zenon
  <2>4. QED
    BY <2>1, <2>2, <2>3 DEF TypeOK
<1>2. AccountsMatchKeys
  BY DEF AccountsMatchKeys
<1>3. MnemonicCanBeRead
  BY DEF MnemonicCanBeRead
<1>4. ResetRestartsWallet
  BY DEF ResetRestartsWallet
<1>5. DraftIsOfSeed
  BY DEF DraftIsOfSeed
<1>6. KeysWrittenOnce
  BY DEF KeysWrittenOnce
<1>7. MnemonicNeedsFile
  BY DEF MnemonicNeedsFile
<1>8. IdentityFirst
  BY DEF IdentityFirst
<1>9. Writers
  BY DEF Writers
<1>10. ResetDraft
  BY DEF ResetDraft
<1>11. QED
  BY <1>1, <1>2, <1>3, <1>4, <1>5, <1>6, <1>7, <1>8, <1>9, <1>10 DEF IInv

\* A command begins with an account to create that fits the directory.
LEMMA BeginPreserves == IInv /\ BeginCommand => IInv'
<1> SUFFICES ASSUME IInv, BeginCommand PROVE IInv'
  OBVIOUS
<1> USE ConstantsAssumption
    DEF IInv, TypeOK, AccountsMatchKeys, MnemonicCanBeRead, ResetRestartsWallet,
        DraftIsOfSeed, KeysWrittenOnce, MnemonicNeedsFile, IdentityFirst, Writers,
        ResetDraft, Commands, Creating,
        Begin, Goto, Exit, NewAccount, dbs, Account
<1>1. CASE BeginInit
  BY <1>1 DEF BeginInit
<1>2. CASE BeginInitFvk
  BY <1>2 DEF BeginInitFvk
<1>3. CASE BeginImportUfvk
  BY <1>3 DEF BeginImportUfvk
<1>4. CASE BeginGenerateAccount
  BY <1>4 DEF BeginGenerateAccount, SeedReadable
<1>5. CASE BeginUpgrade
  BY <1>5 DEF BeginUpgrade
<1>6. CASE BeginReset
  BY <1>6 DEF BeginReset
<1>7. QED
  BY <1>1, <1>2, <1>3, <1>4, <1>5, <1>6 DEF BeginCommand

\* Every step of a command, and its failure, keeps the invariant.
LEMMA RunPreserves == IInv /\ (RunCommand \/ Stop) => IInv'
<1> SUFFICES ASSUME IInv, RunCommand \/ Stop PROVE IInv'
  OBVIOUS
<1> USE ConstantsAssumption
    DEF IInv, TypeOK, AccountsMatchKeys, MnemonicCanBeRead, ResetRestartsWallet,
        DraftIsOfSeed, KeysWrittenOnce, MnemonicNeedsFile, IdentityFirst, Writers,
        ResetDraft, Commands, Creating,
        Goto, Exit, dbs, Account
<1>1. CASE FindIdentity
  BY <1>1 DEF FindIdentity
<1>2. CASE WriteIdentity
  BY <1>2 DEF WriteIdentity
<1>3. CASE CreateKeys
  BY <1>3 DEF CreateKeys
<1>4. CASE WriteKeys
  <2> USE <1>4 DEF WriteKeys
  <2>1. TypeOK'
    OBVIOUS
  <2>2. AccountsMatchKeys'
    OBVIOUS
  <2>3. MnemonicCanBeRead'
    OBVIOUS
  <2>4. ResetRestartsWallet'
    OBVIOUS
  <2>5. DraftIsOfSeed'
    <3>1. cmd = "init" => keys'.seed = draft.key
      OBVIOUS
    <3>2. cmd # "init" => draft.key \notin Seed
      OBVIOUS
    <3>3. draft' = draft /\ cmd' = cmd /\ pc' = "cache"
      OBVIOUS
    <3>4. QED
      BY <3>1, <3>2, <3>3
  <2>6. KeysWrittenOnce'
    OBVIOUS
  <2>7. MnemonicNeedsFile'
    OBVIOUS
  <2>8. IdentityFirst'
    OBVIOUS
  <2>9. Writers'
    OBVIOUS
  <2>10. ResetDraft'
    OBVIOUS
  <2>11. QED
    BY <2>1, <2>2, <2>3, <2>4, <2>5, <2>6, <2>7, <2>8, <2>9, <2>10
<1>5. CASE EraseCache
  <2> USE <1>5 DEF EraseCache
  <2>1. TypeOK'
    <3>1. cache' \in BOOLEAN
      BY Zenon
    <3>2. QED
      BY <3>1
  <2>2. AccountsMatchKeys'
    OBVIOUS
  <2>3. MnemonicCanBeRead'
    OBVIOUS
  <2>4. ResetRestartsWallet'
    OBVIOUS
  <2>5. DraftIsOfSeed'
    OBVIOUS
  <2>6. KeysWrittenOnce'
    OBVIOUS
  <2>7. MnemonicNeedsFile'
    OBVIOUS
  <2>8. IdentityFirst'
    OBVIOUS
  <2>9. Writers'
    OBVIOUS
  <2>10. ResetDraft'
    OBVIOUS
  <2>11. QED
    BY <2>1, <2>2, <2>3, <2>4, <2>5, <2>6, <2>7, <2>8, <2>9, <2>10
<1>6. CASE EraseData
  <2> USE <1>6 DEF EraseData
  <2>1. TypeOK'
    <3>1. ready' \in BOOLEAN
      BY Zenon
    <3>2. accounts' \subseteq Account
      BY Zenon
    <3>3. QED
      BY <3>1, <3>2
  <2>2. AccountsMatchKeys'
    OBVIOUS
  <2>3. MnemonicCanBeRead'
    OBVIOUS
  <2>4. ResetRestartsWallet'
    OBVIOUS
  <2>5. DraftIsOfSeed'
    OBVIOUS
  <2>6. KeysWrittenOnce'
    OBVIOUS
  <2>7. MnemonicNeedsFile'
    OBVIOUS
  <2>8. IdentityFirst'
    OBVIOUS
  <2>9. Writers'
    OBVIOUS
  <2>10. ResetDraft'
    OBVIOUS
  <2>11. QED
    BY <2>1, <2>2, <2>3, <2>4, <2>5, <2>6, <2>7, <2>8, <2>9, <2>10
<1>7. CASE DecryptSeed
  <2> USE <1>7 DEF DecryptSeed, SeedReadable
  <2>1. TypeOK'
    OBVIOUS
  <2>2. AccountsMatchKeys'
    OBVIOUS
  <2>3. MnemonicCanBeRead'
    OBVIOUS
  <2>4. ResetRestartsWallet'
    OBVIOUS
  <2>5. DraftIsOfSeed'
    OBVIOUS
  <2>6. KeysWrittenOnce'
    OBVIOUS
  <2>7. MnemonicNeedsFile'
    OBVIOUS
  <2>8. IdentityFirst'
    OBVIOUS
  <2>9. Writers'
    OBVIOUS
  <2>10. ResetDraft'
    OBVIOUS
  <2>11. QED
    BY <2>1, <2>2, <2>3, <2>4, <2>5, <2>6, <2>7, <2>8, <2>9, <2>10
<1>8. CASE InitCache
  BY <1>8 DEF InitCache
<1>9. CASE InitData
  BY <1>9 DEF InitData
<1>10. CASE AddAccount
  <2> USE <1>10 DEF AddAccount, CanAdd
  <2>1. TypeOK'
    <3>1. accounts' \subseteq Account
      <4>1. CASE UNCHANGED accounts
        BY <4>1
      <4>2. ASSUME NEW i \in 0..(MaxAccounts - 1), CanAdd(draft.key, i),
                   accounts' = accounts \cup
                       {[key |-> draft.key, index |-> i, name |-> draft.name,
                         from |-> draft.from]}
            PROVE  accounts' \subseteq Account
        <5>1. draft.key \in Seed \cup Ufvk
          OBVIOUS
        <5>2. QED
          BY <4>2, <5>1
      <4>3. QED
        BY <4>1, <4>2
    <3>2. QED
      BY <3>1
  <2>2. AccountsMatchKeys'
    OBVIOUS
  <2>3. MnemonicCanBeRead'
    OBVIOUS
  <2>4. ResetRestartsWallet'
    <3>1. SUFFICES ASSUME cmd = "reset", result' = "ok"
                   PROVE  ResetRestartsWallet'
      OBVIOUS
    <3>2. PICK i \in 0..(MaxAccounts - 1) :
              accounts' = accounts \cup
                  {[key |-> draft.key, index |-> i, name |-> draft.name,
                    from |-> draft.from]}
      BY <3>1
    <3> DEFINE a == [key |-> draft.key, index |-> i, name |-> draft.name,
                     from |-> draft.from]
    <3>3. /\ a \in accounts' /\ a.key = keys.seed
          /\ a.from = "configured" /\ a.name = draft.name
      BY <3>1, <3>2
    <3>4. QED
      BY <3>1, <3>3
  <2>5. DraftIsOfSeed'
    OBVIOUS
  <2>6. KeysWrittenOnce'
    OBVIOUS
  <2>7. MnemonicNeedsFile'
    OBVIOUS
  <2>8. IdentityFirst'
    OBVIOUS
  <2>9. Writers'
    OBVIOUS
  <2>10. ResetDraft'
    OBVIOUS
  <2>11. QED
    BY <2>1, <2>2, <2>3, <2>4, <2>5, <2>6, <2>7, <2>8, <2>9, <2>10
<1>11. CASE Stop
  BY <1>11 DEF Stop
<1>12. QED
  BY <1>1, <1>2, <1>3, <1>4, <1>5, <1>6, <1>7, <1>8, <1>9, <1>10, <1>11 DEF RunCommand

\* The directory's inductive invariant.
LEMMA DirectoryInvariant == Spec => []IInv
<1>1. IInv /\ UNCHANGED vars => IInv'
  BY DEF IInv, TypeOK, AccountsMatchKeys, MnemonicCanBeRead, ResetRestartsWallet,
         DraftIsOfSeed, KeysWrittenOnce, MnemonicNeedsFile, IdentityFirst, Writers,
         ResetDraft, Commands, Creating, vars, dbs
<1>2. IInv /\ [Next]_vars => IInv'
  BY <1>1, BeginPreserves, RunPreserves DEF Next
<1>3. QED
  BY InitEstablishes, <1>2, PTL DEF Spec

\* The directory, the databases and the running command have the values the
\* code can give them.
THEOREM TypeCorrect == Spec => []TypeOK
BY DirectoryInvariant, PTL DEF IInv

\* In every directory, after any commands and crashes, an account with a spending
\* key comes from the mnemonic of keys.toml (init.rs, reset.rs, gen_account.rs).
THEOREM SpendingAccountsAreBacked == Spec => []AccountsMatchKeys
BY DirectoryInvariant, PTL DEF IInv

\* keys.toml never holds a mnemonic before the identity file that opens it is
\* complete (init.rs writes and flushes the identity first).
THEOREM MnemonicStaysReadable == Spec => []MnemonicCanBeRead
BY DirectoryInvariant, PTL DEF IInv

\* A reset that succeeds restarts the wallet from its seed and its birthday, even
\* if some of the files it meant to remove are still there.
THEOREM ResetRestarts == Spec => []ResetRestartsWallet
BY DirectoryInvariant, PTL DEF IInv

=============================================================================
