--------------------------- MODULE CredentialStore ---------------------------
(***************************************************************************)
(* The two files of the credential directory, cert.pem and key.pem, and    *)
(* the steps of ensure_identity (src/identity.rs) and from_credential_dir  *)
(* (src/tls.rs) on them, one file-system call at a time.  Every `atv pair` *)
(* that generates an identity generates a new one, named after itself.     *)
(***************************************************************************)
EXTENDS Naturals, FiniteSets

CONSTANTS
    Proc,           \* the invocations of `atv pair`
    Concurrent      \* may they overlap?

ASSUME StoreAssumption ==
    Concurrent \in BOOLEAN /\ "absent" \notin Proc /\ "empty" \notin Proc

VARIABLES
    cert,           \* cert.pem: absent, empty (created, not fully written), or whose
    key,            \* key.pem, likewise
    pc,             \* where each invocation is
    mine,           \* the certificate each one has read
    result          \* what each one printed: paired, or an error kind

store == <<cert, key>>

File == {"absent", "empty"} \cup Proc

Resting == {"idle", "done", "crashed"}

StoreInit ==
    /\ cert = "absent" /\ key = "absent"
    /\ pc = [p \in Proc |-> "idle"]
    /\ mine = [p \in Proc |-> "absent"]
    /\ result = [p \in Proc |-> "none"]

Goto(p, label) == pc' = [pc EXCEPT ![p] = label] /\ UNCHANGED result

\* The invocation ends and prints r.
Return(p, r) ==
    /\ pc' = [pc EXCEPT ![p] = "done"]
    /\ result' = [result EXCEPT ![p] = r]

\* Mutant: an existing certificate is kept, only the missing file is made.
EnsureIdentity_KeepCert(p) ==
    /\ pc[p] = "idle"
    /\ Concurrent \/ \A q \in Proc : pc[q] \in Resting
    /\ Goto(p, IF cert = "absent" THEN "create"
               ELSE IF key = "absent" THEN "key_open" ELSE "load")
    /\ UNCHANGED <<cert, key, mine>>

\* Mutant: every pair generates a new identity.
EnsureIdentity_Always(p) ==
    /\ pc[p] = "idle"
    /\ Concurrent \/ \A q \in Proc : pc[q] \in Resting
    /\ Goto(p, "create")
    /\ UNCHANGED <<cert, key, mine>>

\* The short-circuit of ensure_identity: both files are there.
EnsureIdentity(p) ==
    /\ pc[p] = "idle"
    /\ Concurrent \/ \A q \in Proc : pc[q] \in Resting
    /\ Goto(p, IF cert # "absent" /\ key # "absent" THEN "load" ELSE "create")
    /\ UNCHANGED <<cert, key, mine>>

\* generate_identity is done; fs::write(cert.pem) truncates, then writes.
CreateCert(p) ==
    /\ pc[p] = "create" /\ cert' = "empty" /\ Goto(p, "cert_write")
    /\ UNCHANGED <<key, mine>>

WriteCert(p) ==
    /\ pc[p] = "cert_write" /\ cert' = p /\ Goto(p, "key_open")
    /\ UNCHANGED <<key, mine>>

\* write_key_file: open with create and truncate, then write_all.
CreateKey(p) ==
    /\ pc[p] = "key_open" /\ key' = "empty" /\ Goto(p, "key_write")
    /\ UNCHANGED <<cert, mine>>

WriteKey(p) ==
    /\ pc[p] = "key_write" /\ key' = p /\ Goto(p, "load")
    /\ UNCHANGED <<cert, mine>>

\* What from_credential_dir makes of what it reads: nothing to read, no PEM in
\* a file, or a key that is not the certificate's (rustls compares them).
LoadError(c, k) ==
    IF c = "absent" \/ k = "absent" THEN "not_paired"
    ELSE IF c = "empty" \/ k # c THEN "config_io" ELSE "none"

\* from_credential_dir reads cert.pem, then key.pem.
LoadCert(p) ==
    /\ pc[p] = "load" /\ Goto(p, "load_key")
    /\ mine' = [mine EXCEPT ![p] = cert]
    /\ UNCHANGED store

LoadKey(p) ==
    /\ pc[p] = "load_key"
    /\ LET e == LoadError(mine[p], key)
       IN  \/ e = "none" /\ Goto(p, "connect")
           \/ e # "none" /\ Return(p, e)
    /\ UNCHANGED <<store, mine>>

\* generate_identity, a create, a write or a read fails (no space, no permission),
\* and leaves the files as they are.
StoreFail(p) ==
    /\ pc[p] \in {"create", "cert_write", "key_open", "key_write", "load", "load_key"}
    /\ Return(p, "config_io")
    /\ UNCHANGED <<store, mine>>

StoreStep(p) ==
    \/ EnsureIdentity(p) \/ CreateCert(p) \/ WriteCert(p) \/ CreateKey(p)
    \/ WriteKey(p) \/ LoadCert(p) \/ LoadKey(p) \/ StoreFail(p)

----------------------------------------------------------------------------
Quiet == \A p \in Proc : pc[p] \in Resting

\* ensure_identity: two complete files are the halves of one identity, after
\* any crash and any error of runs that do not overlap.
OneIdentity == ~Concurrent /\ cert \in Proc /\ key \in Proc => cert = key

\* The only store that a crash can leave and that pair does not repair is the
\* one whose key was created and not written.
UnusableIsTorn ==
    ~Concurrent /\ Quiet /\ LoadError(cert, key) = "config_io" => key = "empty"
==============================================================================
