----------------------------- MODULE FileStore -----------------------------
(***************************************************************************)
(* What filesys.h and file.h promise to their callers: names that denote   *)
(* file objects, and open files that keep denoting the object they were    *)
(* opened on, also after its name was removed, until they are closed.      *)
(* FileSys implements this with sectors, a free map and a directory.       *)
(***************************************************************************)
CONSTANTS Name,     \* names callers use
          File,     \* struct file objects, one per open
          Object,   \* identities of file objects
          NULL

VARIABLES names,    \* [Name -> Object or NULL]
          handles,  \* [File -> Object or NULL]
          denies,   \* the open files that called file_deny_write
          content   \* [Object -> {"zero", "written"}], "zero" when not in use

storeVars == <<names, handles, denies, content>>

\* Objects that a name or an open file denotes.
InUse == {names[n] : n \in Name} \cup {handles[f] : f \in File}

StoreInit ==
  /\ names = [n \in Name |-> NULL]
  /\ handles = [f \in File |-> NULL]
  /\ denies = {}
  /\ content = [o \in Object |-> "zero"]

\* filesys_create: a new name for an object nobody else uses, all zeros.
StoreCreate(n, o) ==
  /\ names[n] = NULL
  /\ names' = [names EXCEPT ![n] = o]
  /\ o \notin InUse
  /\ content' = [content EXCEPT ![o] = "zero"]
  /\ UNCHANGED <<handles, denies>>

\* The content of the objects that stay in use; what others hold is gone.
KeepContent ==
  content' = [o \in Object |-> IF o \in InUse' THEN content[o] ELSE "zero"]

\* filesys_remove: the name goes, the object stays while it is open.
StoreRemove(n) ==
  /\ names[n] # NULL
  /\ names' = [names EXCEPT ![n] = NULL]
  /\ KeepContent
  /\ UNCHANGED <<handles, denies>>

\* filesys_open and file_reopen: a file for a named or an open object.
StoreOpen(f, o) ==
  /\ handles[f] = NULL
  /\ o \in InUse \ {NULL}
  /\ handles' = [handles EXCEPT ![f] = o]
  /\ UNCHANGED <<names, denies, content>>

StoreClose(f) ==
  /\ handles[f] # NULL
  /\ handles' = [handles EXCEPT ![f] = NULL]
  /\ denies' = denies \ {f}
  /\ KeepContent
  /\ UNCHANGED names

StoreDeny(f) ==
  /\ handles[f] # NULL
  /\ denies' = denies \cup {f}
  /\ UNCHANGED <<names, handles, content>>

StoreAllow(f) ==
  /\ denies' = denies \ {f}
  /\ UNCHANGED <<names, handles, content>>

\* file_write: no effect while any open file of the object denies writes.
StoreWrite(f) ==
  /\ handles[f] # NULL
  /\ \A g \in denies : handles[g] # handles[f]
  /\ content' = [content EXCEPT ![handles[f]] = "written"]
  /\ UNCHANGED <<names, handles, denies>>

\* Power goes: open files are lost, named objects and their content stay.
StoreCrash ==
  /\ handles' = [f \in File |-> NULL]
  /\ denies' = {}
  /\ KeepContent
  /\ UNCHANGED names

StoreNext ==
  \/ \E f \in File : \/ StoreAllow(f) \/ StoreDeny(f) \/ StoreClose(f)
                     \/ StoreWrite(f) \/ \E o \in Object : StoreOpen(f, o)
  \/ StoreCrash
  \/ \E n \in Name : StoreRemove(n) \/ \E o \in Object : StoreCreate(n, o)

StoreSpec == StoreInit /\ [][StoreNext]_storeVars
=============================================================================
