------------------------------- MODULE Receipt -------------------------------
(***************************************************************************)
(* Receipts (programs/receipt.c, receiptval.c, receiptwrite.c with dbio,   *)
(* fileutils.c, filertns.c, syscmd.c).  Several programs may ask for the   *)
(* receipt of the same payment at the same time; each of them is one call  *)
(* of ReceiptMain and may be killed, or end by SysExit, at any point.      *)
(* A file is named after the program that created it.                      *)
(***************************************************************************)
EXTENDS Naturals, Sequences

CONSTANTS Programs,     \* the calls of ReceiptMain for one payment
          NoFile

ASSUME ReceiptAssumption == NoFile \notin Programs

VARIABLES
    receiptPc,    \* where each program is
    receiptRet,   \* what ReceiptMain returned, with its reason
    email,        \* the file of that name in the e-mail folder
    archive,      \* the file of that name in the archive folder
    fPtr,         \* the file each program has opened
    whole,        \* the files whose text is complete
    archiver      \* history: who moved the archived file

receiptVars == <<receiptPc, receiptRet, email, archive, fPtr, whole, archiver>>

Working == {"write", "close", "archive", "delete"}       \* rectfile says DELETE
Running == {"validate", "folders", "select", "selectEmail", "create"} \cup Working

ReceiptInit ==
    /\ receiptPc = [p \in Programs |-> "validate"]
    /\ receiptRet = [p \in Programs |-> "none"]
    /\ email = NoFile /\ archive = NoFile
    /\ fPtr = [p \in Programs |-> NoFile]
    /\ whole = {} /\ archiver = NoFile

ReceiptGoto(p, label) == receiptPc' = [receiptPc EXCEPT ![p] = label]
ReceiptReturn(p, ret) ==
    ReceiptGoto(p, "returned") /\ receiptRet' = [receiptRet EXCEPT ![p] = ret]

\* What a read by key, and the decryption of the address, may return.
DbPersonReadKey == {"valid", "invalid", "major"}
DbPersonShowEmail == {"valid", "major"}
DbPmttxnReadKey == {"valid", "invalid", "major"}
DbRecprmReadKey == {"valid", "invalid", "major"}

\* They are called in turn; the first that fails ends it.
ReceiptValidateDb(p) ==
    /\ receiptPc[p] = "validate"
    /\ \E person \in DbPersonReadKey, toEmail \in DbPersonShowEmail,
          pmttxn \in DbPmttxnReadKey, recprm \in DbRecprmReadKey :
          LET rets == <<person, toEmail, pmttxn, recprm>> IN
          \/ (\A i \in 1..4 : rets[i] = "valid") /\ ReceiptGoto(p, "folders") /\ UNCHANGED receiptRet
          \/ \E i \in 1..4 : /\ rets[i] # "valid" /\ \A j \in 1..(i - 1) : rets[j] = "valid"
                             /\ ReceiptReturn(p, rets[i])
    /\ UNCHANGED <<email, archive, fPtr, whole, archiver>>

\* stat(): the file of a name, or none; a folder is there or not.
FileExists(file) == file # NoFile
FolderExists == BOOLEAN

ReceiptValidateFolders(p) ==
    /\ receiptPc[p] = "folders"
    /\ \E archiveFolder \in FolderExists, emailFolder \in FolderExists :
          IF archiveFolder /\ emailFolder THEN ReceiptGoto(p, "select") /\ UNCHANGED receiptRet
                                          ELSE ReceiptReturn(p, "invalid")
    /\ UNCHANGED <<email, archive, fPtr, whole, archiver>>

\* ReceiptSelectFolder looks in the archive folder first.
CheckArchive(p) ==
    /\ receiptPc[p] = "select"
    /\ IF FileExists(archive) THEN ReceiptReturn(p, "already")
                              ELSE ReceiptGoto(p, "selectEmail") /\ UNCHANGED receiptRet
    /\ UNCHANGED <<email, archive, fPtr, whole, archiver>>

\* Then in the e-mail folder: "Receipt is being generated by another user".
CheckEmail(p) ==
    /\ receiptPc[p] = "selectEmail"
    /\ IF FileExists(email) THEN ReceiptReturn(p, "anotherUser")
                            ELSE ReceiptGoto(p, "create") /\ UNCHANGED receiptRet
    /\ UNCHANGED <<email, archive, fPtr, whole, archiver>>

\* fopen(..., "w") creates the file, or empties the one that is there by now.
FileOpen(p) ==
    /\ receiptPc[p] = "create" /\ ReceiptGoto(p, "write")
    /\ email' = IF FileExists(email) THEN email ELSE p
    /\ fPtr' = [fPtr EXCEPT ![p] = email']
    /\ whole' = whole \ {email'}
    /\ UNCHANGED <<receiptRet, archive, archiver>>

\* The text, the same for every program, fits the stdio buffer, which fclose()
\* writes to the file.
ReceiptFileWrite(p) ==
    /\ receiptPc[p] = "write" /\ ReceiptGoto(p, "close")
    /\ UNCHANGED <<receiptRet, email, archive, fPtr, whole, archiver>>
FileClose(p) ==
    /\ receiptPc[p] = "close" /\ ReceiptGoto(p, "archive")
    /\ whole' = whole \cup {fPtr[p]}
    /\ fPtr' = [fPtr EXCEPT ![p] = NoFile]
    /\ UNCHANGED <<receiptRet, email, archive, archiver>>

\* SysCmd runs the command and returns 0, or 1 when its status is not 0.  The
\* archiveCmd is mv: it moves the file that has the name now, whoever wrote it.
SysCmd(p, ret) ==
    \/ FileExists(email) /\ ret = 0 /\ archive' = email /\ archiver' = p /\ email' = NoFile
    \/ ret = 1 /\ UNCHANGED <<email, archive, archiver>>
ArchiveReceipt(p) ==
    /\ receiptPc[p] = "archive" /\ UNCHANGED <<fPtr, whole>>
    /\ \/ SysCmd(p, 0) /\ ReceiptReturn(p, "created")
       \/ SysCmd(p, 1) /\ ReceiptGoto(p, "delete") /\ UNCHANGED receiptRet

\* Mutant: the file of a failed archive command is left behind.
KeepsReceipt(p) ==
    /\ receiptPc[p] = "delete" /\ ReceiptReturn(p, "failed")
    /\ UNCHANGED <<email, archive, fPtr, whole, archiver>>

\* FileDelete: unlink(), which may find nothing to delete.
FileDelete == email' = NoFile
ReceiptEmailErr(p) ==
    /\ receiptPc[p] = "delete" /\ ReceiptReturn(p, "failed") /\ FileDelete
    /\ UNCHANGED <<archive, fPtr, whole, archiver>>

\* The program is killed, or a routine it calls ends it by SysExit: files stay.
ProgramEnds(p) ==
    /\ receiptPc[p] \in Running /\ ReceiptGoto(p, "ended")
    /\ UNCHANGED <<receiptRet, email, archive, fPtr, whole, archiver>>

ReceiptNext ==
    \E p \in Programs :
        \/ ReceiptValidateDb(p) \/ ReceiptValidateFolders(p) \/ CheckArchive(p) \/ CheckEmail(p)
        \/ FileOpen(p) \/ ReceiptFileWrite(p) \/ FileClose(p) \/ ArchiveReceipt(p)
        \/ ReceiptEmailErr(p) \/ ProgramEnds(p)

ReceiptSpec == ReceiptInit /\ [][ReceiptNext]_receiptVars
-----------------------------------------------------------------------------
ReceiptTypeOK ==
    /\ receiptPc \in [Programs -> Running \cup {"returned", "ended"}]
    /\ receiptRet \in [Programs -> {"none", "invalid", "major", "already", "anotherUser",
                                    "created", "failed"}]
    /\ {email, archive, archiver} \subseteq Programs \cup {NoFile}
    /\ fPtr \in [Programs -> Programs \cup {NoFile}] /\ whole \subseteq Programs

\* Unless a program was cut off, once nobody is between opening the e-mail file
\* and the end of receiptFile, no e-mail file is left, and the receipt is archived
\* whole if it is archived, and it is if ReceiptMain returned 0 to anyone, however
\* the steps of the programs interleaved (receipt.c:119-168, receiptval.c:157-177).
ReceiptsSettle ==
    (\A p \in Programs : receiptPc[p] \notin Working \cup {"ended"})
        => /\ email = NoFile
           /\ archive # NoFile => archive \in whole
           /\ (\E p \in Programs : receiptRet[p] \in {"created", "already"}) => archive # NoFile

\* An incomplete receipt in the archive folder was moved there by a program other
\* than the one that has the file open: two programs passed the checks of
\* ReceiptSelectFolder together.  A crash alone never leaves one.
ArchivedWhole ==
    archive # NoFile /\ archive \notin whole
        => \E p \in Programs : fPtr[p] = archive /\ p # archiver

ReceiptSafe == ReceiptsSettle /\ ArchivedWhole

\* What makes the two inductive.
FilesOpen ==
    /\ \A p \in Programs : receiptPc[p] \in {"write", "close"} => fPtr[p] # NoFile
    /\ \A p \in Programs : fPtr[p] # NoFile => receiptPc[p] \in {"write", "close", "ended"}
    /\ \A f \in {email, archive} : f # NoFile /\ f \notin whole => \E p \in Programs : fPtr[p] = f
    /\ archive # NoFile => archiver # NoFile /\ receiptPc[archiver] = "returned"
EmailOwned ==
    email # NoFile => \E p \in Programs : receiptPc[p] \in Working \cup {"ended"}
ReturnsArchived ==
    (\E p \in Programs : receiptRet[p] \in {"created", "already"}) => archive # NoFile
ReceiptInv == ReceiptTypeOK /\ FilesOpen /\ EmailOwned /\ ReturnsArchived
=============================================================================
