----------------------------- MODULE RemoteFile -----------------------------
(***************************************************************************)
(* One remote path and the files it names in turn, as its readers see them.  *)
(* Whoever changes it is external to the readers: the server's mutations     *)
(* and uploads put another file under the name (fs_ops.rs installs by        *)
(* rename), commands also write into the file that is there.                 *)
(***************************************************************************)
EXTENDS Naturals, Sequences

CONSTANTS
    Contents,    \* what files may hold: sequences of bytes
    MaxChanges   \* bound: changes by others

(* The bytes that occur in them.                                             *)
Byte == UNION {{c[k] : k \in DOMAIN c} : c \in Contents}

ASSUME FileAssumption ==
    <<>> \in Contents /\ Contents \subseteq Seq(Byte) /\ MaxChanges \in Nat

VARIABLES
    name,     \* the file the path names, or NoFile
    inode,    \* what each file holds
    changes   \* changes made so far

fileVars == <<name, inode, changes>>

Inodes == 1..(MaxChanges + 1)
NoFile == 0

FileTypeOK == name \in Inodes \union {NoFile} /\ inode \in [Inodes -> Contents] /\ changes \in 0..MaxChanges

FileInit ==
    /\ \/ name = NoFile /\ inode = [i \in Inodes |-> <<>>]
       \/ name = 1 /\ \E c \in Contents : inode = [i \in Inodes |-> IF i = 1 THEN c ELSE <<>>]
    /\ changes = 0

Changing == changes < MaxChanges /\ changes' = changes + 1

(* A new file takes the name.                                                *)
Install(c) ==
    /\ Changing
    /\ name' = changes + 2
    /\ inode' = [inode EXCEPT ![changes + 2] = c]

(* The file that has the name gets other bytes.                              *)
WriteInPlace(c) ==
    /\ name # NoFile /\ c # inode[name]
    /\ Changing
    /\ inode' = [inode EXCEPT ![name] = c]
    /\ UNCHANGED name

Unlink ==
    /\ name # NoFile
    /\ Changing
    /\ name' = NoFile
    /\ UNCHANGED inode
=============================================================================
