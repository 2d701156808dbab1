--------------------------------- MODULE Dropbox ---------------------------------
(***************************************************************************)
(* The file server systems/cs166/7/dropbox: accounts and sessions, a file  *)
(* tree per user kept as rows of a table, contents stored once under their *)
(* checksum and counted, and files shared with other users.                *)
(*                                                                         *)
(* request (lib/support/rpc/server.go) runs one handler at a time, so a    *)
(* handler is one step.  A path is the sequence of its names; a checksum   *)
(* stands for the content it is of.  Whom the table `users` has is in      *)
(* users, whose session is current in sid.                                 *)
(***************************************************************************)
EXTENDS Naturals, FiniteSets, SequencesExt

CONSTANTS Users, Names, Contents,
          Slashed,     \* the contents whose checksum has a '/', which base64 uses
          WritesFail,  \* whether writing a file may fail
          Grants,      \* the write permissions that Share is called with
          Dir, None

VARIABLES users, sid, pwd,
          fd,          \* fd[u][p]: the content of u's file p, or Dir, or None
          shares,      \* the rows of the table, oldest first
          ncount,      \* the references to each content
          uploads,     \* the contents stored as files
          unwritten    \* the counted contents whose last WriteFile has not left them there

dropboxVars == <<users, sid, pwd, fd, shares, ncount, uploads, unwritten>>

fileVars == <<uploads, unwritten>>

Root     == <<>>
Paths    == {Root} \cup {<<a>> : a \in Names} \cup {<<a, b>> : a, b \in Names}
Parent(p) == SubSeq(p, 1, Len(p) - 1)
Args     == {[rel |-> r, path |-> p] : r \in BOOLEAN, p \in Paths}
Count(S) == Cardinality(S)

Init ==
    /\ users = {} /\ sid = {}
    /\ pwd = [u \in Users |-> Root]
    /\ fd = [u \in Users |-> [p \in Paths |-> None]]
    /\ shares = <<>>
    /\ ncount = [c \in Contents |-> 0]
    /\ uploads = {} /\ unwritten = {}

------------------------------------------------------------------------------
(* The tables. *)

ResolvePath(u, arg) == IF arg.rel THEN pwd[u] \o arg.path ELSE arg.path

Access(u, p) == fd[u][p] # None
IsDir(u, p)  == fd[u][p] = Dir
File(u, p)   == fd[u][p] \in Contents

\* The answer is the opposite of the name; the root has a row below itself, its own.
IsEmpty(u, p) == p = Root \/ \E q \in Paths \ {Root} : Parent(q) = p /\ Access(u, q)

RowsOf(o, p, u) == SelectSeq(shares, LAMBDA r : r.owner = o /\ r.path = p /\ r.user = u)
Unshared(o, ps) == SelectSeq(shares, LAMBDA r : ~(r.owner = o /\ r.path \in ps))

\* Mutant of Lower: the count is not written back.
LowerKeeps(c, n) == ncount[c]

\* DecreaseNcount, n times for c; the count stops at 0, and the last reference takes the file along.
Lower(c, n)    == IF n <= ncount[c] THEN ncount[c] - n ELSE 0
LastGone(c, n) == ncount[c] >= 1 /\ n >= ncount[c]

\* Rm of the files and directories ps of u.
RmAll(u, ps) ==
    LET gone(c) == Count({p \in ps : fd[u][p] = c})
    IN  /\ fd' = [fd EXCEPT ![u] = [p \in Paths |-> IF p \in ps THEN None ELSE @[p]]]
        /\ ncount' = [c \in Contents |-> Lower(c, gone(c))]
        /\ uploads' = {c \in uploads : ~LastGone(c, gone(c))}
        /\ unwritten' = {c \in unwritten : ~LastGone(c, gone(c))}
        /\ shares' = Unshared(u, ps)

------------------------------------------------------------------------------
(* Accounts and sessions. *)

createAccount(u) ==
    /\ u \notin users
    /\ users' = users \cup {u}
    /\ pwd' = [pwd EXCEPT ![u] = Root]
    /\ fd' = [fd EXCEPT ![u][Root] = Dir]
    /\ UNCHANGED <<sid, shares, ncount, fileVars>>

login(u) ==
    /\ u \in users
    /\ sid' = sid \cup {u}
    /\ pwd' = [pwd EXCEPT ![u] = Root]
    /\ UNCHANGED <<users, fd, shares, ncount, fileVars>>

\* An hour after the login.
Timeout(u) == u \in sid /\ sid' = sid \ {u} /\ UNCHANGED <<users, pwd, fd, shares, ncount, fileVars>>

\* The checksum of a directory is NULL, which Scan does not put into a string: it leaves the
\* names empty, and "/" is removed instead, which fails.  So directories stay.
deleteAccount(u) ==
    /\ u \in users
    /\ users' = users \ {u}
    /\ sid' = sid \ {u}
    /\ RmAll(u, {p \in Paths : File(u, p)})
    /\ UNCHANGED pwd

------------------------------------------------------------------------------
(* Files; the user has authenticated. *)

\* WriteFile of uploads/<checksum>, after the tables: with a '/' that is a file in a directory
\* that is not there; otherwise it may fail before it has emptied an older file, or after.
WriteFile(c) ==
    /\ uploads' \in IF c \in Slashed THEN {uploads}
                    ELSE {uploads \cup {c}} \cup IF WritesFail THEN {uploads, uploads \ {c}} ELSE {}
    /\ unwritten' = IF c \in uploads' THEN unwritten \ {c} ELSE unwritten \cup {c}

Upload(u, p, c) ==
    /\ p # Root /\ IsDir(u, Parent(p)) /\ ~Access(u, p)
    /\ fd' = [fd EXCEPT ![u][p] = c]
    /\ ncount' = [ncount EXCEPT ![c] = @ + 1]
    /\ WriteFile(c)
    /\ UNCHANGED <<users, sid, pwd, shares>>

\* The UPDATE of shares is a Query whose rows nobody asks for; whether it takes effect is up to
\* the driver (the comment at db/fd.go:179).  It names no path: every share by the owner of
\* the same content is changed.  The counts are not.
UploadShared(u, o, p, c) ==
    LET rows == RowsOf(o, p, u)
        update(r) == IF r.owner = o /\ r.checksum = rows[1].checksum
                     THEN [r EXCEPT !.checksum = c] ELSE r
    IN  /\ rows # <<>> /\ rows[1].write
        /\ shares' \in {shares, [i \in DOMAIN shares |-> update(shares[i])]}
        /\ IF IsDir(o, Parent(p))
           THEN /\ fd' = [fd EXCEPT ![o][p] = IF @ \in Contents THEN c ELSE @]
                /\ WriteFile(c)
           ELSE UNCHANGED <<fd, fileVars>>
        /\ UNCHANGED <<users, sid, pwd, ncount>>

Mkdir(u, p) ==
    /\ p # Root /\ IsDir(u, Parent(p)) /\ ~Access(u, p)
    /\ fd' = [fd EXCEPT ![u][p] = Dir]
    /\ UNCHANGED <<users, sid, pwd, shares, ncount, fileVars>>

Rm(u, p) ==
    /\ Access(u, p)
    /\ ~(IsDir(u, p) /\ IsEmpty(u, p))
    /\ RmAll(u, {p})
    /\ UNCHANGED <<users, sid, pwd>>

\* A sharee drops the share; no owner is named, so it is dropped for all of them.
RmShared(u, p) ==
    /\ shares' = SelectSeq(shares, LAMBDA r : ~(r.path = p /\ r.user = u))
    /\ UNCHANGED <<users, sid, pwd, fd, ncount, fileVars>>

Cd(u, p) == /\ IsDir(u, p)
            /\ pwd' = [pwd EXCEPT ![u] = p]
            /\ UNCHANGED <<users, sid, fd, shares, ncount, fileVars>>

CdUp(u) == /\ pwd' = [pwd EXCEPT ![u] = IF @ = Root THEN Root ELSE Parent(@)]
           /\ UNCHANGED <<users, sid, fd, shares, ncount, fileVars>>

\* Both name the row with the content that the file has now.
Current(r, o, p, u) == r.owner = o /\ r.path = p /\ r.user = u /\ r.checksum = fd[o][p]
Others(o, p, u)     == SelectSeq(shares, LAMBDA r : ~Current(r, o, p, u))

Share(o, p, u, write) ==
    /\ File(o, p) /\ u \in users
    /\ shares' = Append(Others(o, p, u), [checksum |-> fd[o][p], owner |-> o, path |-> p,
                                          user |-> u, write |-> write])
    /\ UNCHANGED <<users, sid, pwd, fd, ncount, fileVars>>

RmShare(o, p, u) ==
    /\ File(o, p)
    /\ shares' = Others(o, p, u)
    /\ UNCHANGED <<users, sid, pwd, fd, ncount, fileVars>>

Request(u) ==
    \/ \E arg \in Args : LET p == ResolvePath(u, arg) IN
          /\ p \in Paths
          /\ \/ \E c \in Contents : Upload(u, p, c)
             \/ Mkdir(u, p)
             \/ Rm(u, p)
             \/ Cd(u, p)
             \/ \E w \in Users : RmShare(u, p, w) \/ \E write \in Grants : Share(u, p, w, write)
    \/ \E o \in Users, p \in Paths, c \in Contents : UploadShared(u, o, p, c)
    \/ \E p \in Paths : RmShared(u, p)
    \/ CdUp(u)

Next == \/ \E u \in Users : createAccount(u) \/ login(u) \/ deleteAccount(u) \/ Timeout(u)
        \/ \E u \in sid : Request(u)

Spec == Init /\ [][Next]_dropboxVars

------------------------------------------------------------------------------
(* What a user sees. *)

List(u, p) == {q \in Paths \ {Root} : Parent(q) = p /\ Access(u, q)}
Shared(u)  == IF pwd[u] = Root THEN {r \in ToSet(shares) : r.user = u} ELSE {}

\* Download finds the row, and the server the file.
Download(o, p)           == File(o, p) /\ fd[o][p] \in uploads
DownloadShared(u, o, p)  == RowsOf(o, p, u) # <<>> /\ Download(o, p)

\* server.go:266, "all files should be stored in the uploads directory via their checksums".
StoredByChecksum == \A u \in Users, p \in Paths : File(u, p) => fd[u][p] \in uploads

\* While nobody may write to another's files: what List shows a user, his own and what is
\* shared with him, can be downloaded, unless the last attempt to write its content has
\* failed, of which the tables know nothing; a content is counted once for each row of fd that
\* refers to it, and but for that stored exactly as long; and a share carries the content of
\* its file, without which RmShare would not find it.
TablesAgree ==
    /\ \A u \in sid :
          /\ \A p \in Paths : \A q \in List(u, p) : Download(u, q) \/ IsDir(u, q) \/ fd[u][q] \in unwritten
          /\ \A r \in Shared(u) : DownloadShared(u, r.owner, r.path) \/ r.checksum \in unwritten
    /\ \A c \in Contents : ncount[c] = Count({<<u, p>> \in Users \X Paths : fd[u][p] = c})
    /\ uploads = {c \in Contents \ unwritten : ncount[c] > 0}
    /\ \A i \in DOMAIN shares : Current(shares[i], shares[i].owner, shares[i].path, shares[i].user)
=================================================================================
