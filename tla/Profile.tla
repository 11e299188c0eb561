------------------------------- MODULE Profile -------------------------------
(***************************************************************************)
(* The files of one profile directory: the profile, the location           *)
(* credentials beside it and the connection document for the phone.        *)
(* Processes that run configure or configure-location write them           *)
(* (cmd/.../main.go, config.go, location_http.go) while a daemon that is   *)
(* started reads them.  A step is one system call.  Every process may be   *)
(* killed between two steps, and every write, creation and rename may      *)
(* fail; os.Remove succeeds.                                               *)
(*                                                                         *)
(* A file is abstracted to the process that created it and to whether all  *)
(* of its contents were written.                                           *)
(***************************************************************************)
CONSTANTS
    Processes,       \* each runs one configure or configure-location
    Documents,       \* the paths they give to --output
    None             \* no process

ASSUME NoneAssumption == None \notin Processes

VARIABLES
    profile,         \* whose settings it holds, whose location section
    credentials,     \* who created ios-ota-location.json; None if it is absent
    written,         \* it is complete
    documents,       \* who created the file at each path of Documents
    writtenDocuments,  \* the paths at which it is complete
    temporaries,     \* processes with a .profile-*.json in the directory
    pc, loaded, output,  \* of a process: where it is, its Config, its --output
    daemon, listening    \* a starting daemon, and the location it read

credentialVars == <<credentials, written>>
documentVars == <<documents, writtenDocuments>>
files == <<profile, credentialVars, documentVars, temporaries>>
daemonVars == <<daemon, listening>>
vars == <<files, pc, loaded, output, daemonVars>>

Config == [settings : Processes \cup {None}, location : Processes \cup {None}]

\* In Creating, a configure-location process has the credentials it created.
Creating == {"filling", "document", "filling_document", "undo_output",
             "undo_credentials"}
Writing == {"create", "write", "rename"}
PCs == {"idle", "credentials", "done", "failed", "killed"} \cup Creating \cup Writing

TypeOK ==
    /\ profile \in Config
    /\ credentials \in Processes \cup {None} /\ written \in BOOLEAN
    /\ documents \in [Documents -> Processes \cup {None}]
    /\ writtenDocuments \subseteq Documents
    /\ temporaries \subseteq Processes
    /\ pc \in [Processes -> PCs] /\ loaded \in [Processes -> Config]
    /\ output \in [Processes -> Documents]
    /\ daemon \in {"idle", "loaded", "serving", "failed"}
    /\ listening \in Processes \cup {None}

\* There is no profile yet.
Missing == [settings |-> None, location |-> None]

Init ==
    /\ profile = Missing /\ credentials = None /\ written = FALSE
    /\ documents = [d \in Documents |-> None] /\ writtenDocuments = {}
    /\ temporaries = {}
    /\ pc = [p \in Processes |-> "idle"]
    /\ loaded = [p \in Processes |-> Missing]
    /\ output \in [Processes -> Documents]
    /\ daemon = "idle" /\ listening = None

Go(p, from, to) == pc[p] = from /\ pc' = [pc EXCEPT ![p] = to]

-----------------------------------------------------------------------------
(* ConfigureLocation *)

LocationStep(p, from, to) ==
    /\ Go(p, from, to)
    /\ UNCHANGED <<profile, temporaries, output, daemonVars>>

\* LoadConfig succeeds and the profile has no location section.
Load(p) ==
    /\ profile # Missing /\ profile.location = None
    /\ LocationStep(p, "idle", "credentials")
    /\ loaded' = [loaded EXCEPT ![p] = profile]
    /\ UNCHANGED <<credentialVars, documentVars>>

LoadFails(p) ==
    /\ LocationStep(p, "idle", "failed")
    /\ UNCHANGED <<credentialVars, documentVars, loaded>>

CreateIf(p, condition) ==
    /\ condition
    /\ LocationStep(p, "credentials", "filling")
    /\ credentials' = p /\ written' = FALSE
    /\ UNCHANGED <<documentVars, loaded>>

\* Mutant: O_TRUNC instead of O_EXCL.
CreateTruncated(p) == CreateIf(p, TRUE)

\* writeLocationFile(credentialsPath): O_EXCL, then the contents.
CreateCredentials(p) == CreateIf(p, credentials = None)

\* os.Remove(credentialsPath)
RemoveIf(removed) ==
    /\ credentials' = IF removed THEN None ELSE credentials
    /\ written' = (written /\ ~removed)

\* Its error returns at once, whether the file exists or its write failed.
CredentialsFail(p, removed) ==
    /\ \/ LocationStep(p, "credentials", "failed")
       \/ LocationStep(p, "filling", "failed")
    /\ RemoveIf(removed)
    /\ UNCHANGED <<documentVars, loaded>>

\* Mutant: the error path cleans up as the later ones do.
CredentialsRemoved(p) == CredentialsFail(p, TRUE)

CredentialsFailed(p) == CredentialsFail(p, FALSE)

FillCredentials(p) ==
    /\ LocationStep(p, "filling", "document")
    /\ written' = TRUE /\ UNCHANGED credentials
    /\ UNCHANGED <<documentVars, loaded>>

\* writeLocationFile(output)
CreateDocument(p) ==
    /\ documents[output[p]] = None
    /\ LocationStep(p, "document", "filling_document")
    /\ documents' = [documents EXCEPT ![output[p]] = p]
    /\ UNCHANGED writtenDocuments
    /\ UNCHANGED <<credentialVars, loaded>>

DocumentFails(p, removed) ==
    /\ \/ LocationStep(p, "document", "failed")
       \/ LocationStep(p, "filling_document", "failed")
    /\ RemoveIf(removed)
    /\ UNCHANGED <<documentVars, loaded>>

\* Mutant: the credentials stay behind.
DocumentFailsOnly(p) == DocumentFails(p, FALSE)

\* Its error removes the credentials.
DocumentFailed(p) == DocumentFails(p, TRUE)

\* config.Location = &location, and WriteConfig comes next.
FillDocument(p) ==
    /\ LocationStep(p, "filling_document", "create")
    /\ writtenDocuments' = writtenDocuments \cup {output[p]}
    /\ UNCHANGED documents
    /\ loaded' = [loaded EXCEPT ![p].location = p]
    /\ UNCHANGED credentialVars

\* WriteConfig failed: os.Remove of both files.
UndoCredentials(p) ==
    /\ LocationStep(p, "undo_credentials", "undo_output")
    /\ RemoveIf(TRUE)
    /\ UNCHANGED <<documentVars, loaded>>

UndoDocument(p) ==
    /\ LocationStep(p, "undo_output", "failed")
    /\ documents' = [documents EXCEPT ![output[p]] = None]
    /\ writtenDocuments' = writtenDocuments \ {output[p]}
    /\ UNCHANGED <<credentialVars, loaded>>

ConfigureLocation(p) ==
    \/ Load(p) \/ LoadFails(p)
    \/ CreateCredentials(p) \/ FillCredentials(p) \/ CredentialsFailed(p)
    \/ CreateDocument(p) \/ FillDocument(p) \/ DocumentFailed(p)
    \/ UndoCredentials(p) \/ UndoDocument(p)

-----------------------------------------------------------------------------
(* configure, and WriteConfig for both commands *)

\* A configuration made of the flags only: it has no location section.
Configure(p) ==
    /\ Go(p, "idle", "create")
    /\ loaded' = [loaded EXCEPT ![p] = [settings |-> p, location |-> None]]
    /\ UNCHANGED <<files, output, daemonVars>>

WriteStep(p, from, to) ==
    /\ Go(p, from, to)
    /\ UNCHANGED <<credentialVars, documentVars, loaded, output, daemonVars>>

\* os.CreateTemp
CreateTemporary(p) ==
    /\ WriteStep(p, "create", "write")
    /\ temporaries' = temporaries \cup {p}
    /\ UNCHANGED profile

\* Chmod, Encode, Sync and Close
WriteTemporary(p) ==
    /\ WriteStep(p, "write", "rename")
    /\ UNCHANGED <<profile, temporaries>>

Rename(p) ==
    /\ WriteStep(p, "rename", "done")
    /\ profile' = loaded[p]
    /\ temporaries' = temporaries \ {p}

\* Where ConfigureLocation and configure take an error of WriteConfig.
AfterError(p) == IF loaded[p].location = p THEN "undo_credentials" ELSE "failed"

\* Each error returns through the deferred os.Remove of the temporary file.
WriteFailed(p) ==
    /\ \E from \in Writing : WriteStep(p, from, AfterError(p))
    /\ temporaries' = temporaries \ {p}
    /\ UNCHANGED profile

WriteConfig(p) ==
    CreateTemporary(p) \/ WriteTemporary(p) \/ Rename(p) \/ WriteFailed(p)

-----------------------------------------------------------------------------
(* The daemon reads the profile, and later the credentials *)

\* serve: LoadConfig.  A daemon without a location section needs no more.
DaemonLoads ==
    /\ daemon = "idle" /\ profile # Missing
    /\ daemon' = IF profile.location = None THEN "serving" ELSE "loaded"
    /\ listening' = profile.location
    /\ UNCHANGED <<files, pc, loaded, output>>

\* startLocationHTTPS: the credentials must be a complete document.
DaemonListens ==
    /\ daemon = "loaded"
    /\ daemon' = IF written THEN "serving" ELSE "failed"
    /\ UNCHANGED <<files, pc, loaded, output, listening>>

\* The daemon ends, for whatever reason, and is started again.
DaemonRestarts ==
    /\ daemon # "idle"
    /\ daemon' = "idle" /\ listening' = None
    /\ UNCHANGED <<files, pc, loaded, output>>

Kill(p) ==
    /\ pc[p] \notin {"idle", "done", "failed", "killed"}
    /\ pc' = [pc EXCEPT ![p] = "killed"]
    /\ UNCHANGED <<files, loaded, output, daemonVars>>

Next ==
    \/ \E p \in Processes :
           ConfigureLocation(p) \/ Configure(p) \/ WriteConfig(p) \/ Kill(p)
    \/ DaemonLoads \/ DaemonListens \/ DaemonRestarts

Spec == Init /\ [][Next]_vars

-----------------------------------------------------------------------------
(* Properties *)

\* The complete files of p.
HasCredentials(p) == credentials = p /\ written
HasDocument(p) == documents[output[p]] = p /\ output[p] \in writtenDocuments

\* A profile that names a location is backed, from the rename on and for good,
\* by the complete credentials and connection document of the process that
\* wrote it: no rollback, competing command or kill takes them away.
LocationBacked ==
    \A p \in Processes : profile.location = p =>
        HasCredentials(p) /\ HasDocument(p)

\* What a daemon read in the profile still holds when it opens the
\* credentials, so a restart at any moment finds its HTTPS listener usable.
DaemonFindsCredentials ==
    /\ daemon # "failed"
    /\ daemon \in {"loaded", "serving"} /\ listening # None =>
           HasCredentials(listening)

\* A command that reports an error has left no complete credentials, no
\* complete connection document and no temporary profile of its own.  (A file
\* whose write failed stays behind incomplete, and a kill leaves anything.)
FailureRollsBack ==
    \A p \in Processes : pc[p] = "failed" =>
        /\ p \notin temporaries
        /\ ~HasCredentials(p) /\ ~HasDocument(p)

\* Who owns the credentials, and what they hold by then.
CredentialsOwned(p) ==
    /\ pc[p] = "filling" => credentials = p /\ ~written
    /\ \/ pc[p] \in {"document", "filling_document", "undo_credentials"}
       \/ pc[p] \in Writing /\ loaded[p].location = p
       => HasCredentials(p)
    /\ HasCredentials(p) =>
           /\ pc[p] \notin {"idle", "credentials", "filling", "undo_output", "failed"}
           /\ pc[p] \in Writing => loaded[p].location = p
    /\ pc[p] = "done" /\ loaded[p].location = p =>
           HasCredentials(p)

CredentialsOwner == \A p \in Processes : CredentialsOwned(p)

\* Who owns a connection document, and what it holds by then.
DocumentOwned(p) ==
    /\ pc[p] = "filling_document" =>
           documents[output[p]] = p /\ output[p] \notin writtenDocuments
    /\ \/ pc[p] \in {"undo_credentials", "undo_output"}
       \/ pc[p] \in Writing \cup {"done"} /\ loaded[p].location = p
       => HasDocument(p)
    /\ HasDocument(p) =>
           /\ pc[p] \in Writing \cup {"undo_credentials", "undo_output", "done",
                                     "killed"}
           /\ pc[p] \in Writing => loaded[p].location = p

DocumentOwner == \A p \in Processes : DocumentOwned(p)

\* Where location sections come from.
Locations ==
    /\ written => credentials # None
    /\ \A d \in writtenDocuments : documents[d] # None
    /\ \A p \in Processes :
           /\ loaded[p].location \in {None, p}
           /\ pc[p] \in {"undo_credentials", "undo_output"} => loaded[p].location = p
           /\ pc[p] \in {"idle", "credentials", "filling", "document",
                         "filling_document"} => loaded[p].location = None
    /\ \A p \in Processes : profile.location = p \/ listening = p =>
           pc[p] = "done" /\ loaded[p].location = p
    /\ \A p \in temporaries : pc[p] \in {"write", "rename", "killed"}
    /\ daemon # "failed" /\ (daemon = "loaded" => listening # None)

\* The inductive invariant behind the properties above.
IInv == TypeOK /\ CredentialsOwner /\ DocumentOwner /\ Locations

=============================================================================
