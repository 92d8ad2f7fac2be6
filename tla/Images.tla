-------------------------------- MODULE Images --------------------------------
(***************************************************************************)
(* Uploaded images: the class Files of src/muistot/files/files.py and      *)
(* GET /images/{image} (backend/api/files.py).                             *)
(*                                                                         *)
(* An image is a row of the table images and a file.  The row belongs to   *)
(* the transaction of the request that uploads it; the file does not.  A   *)
(* file is named by a UUID, so an image is called here after the request   *)
(* that uploads it, and a client knows only the names it was shown.        *)
(*                                                                         *)
(* Every worker process caches what it found out about a name, also that   *)
(* there is no such file.  A cache of 64 forgets an entry at any time, and *)
(* all of them when its process ends.                                      *)
(***************************************************************************)
CONSTANTS Requests, Workers

VARIABLES rows,   \* the images whose row is committed
          file,   \* file[i]: how much of the file of image i is there
          cache,  \* cache[w][i]: what worker w remembers of image i
          shown   \* the names that a response has shown

images == <<rows, file, cache, shown>>

ImagesTypeOK == /\ rows \subseteq Requests
                /\ file \in [Requests -> {"none", "partial", "whole"}]
                /\ cache \in [Workers -> [Requests -> {"unknown", "found", "missing"}]]
                /\ shown \subseteq Requests

ImagesInit == /\ rows = {}
              /\ file = [i \in Requests |-> "none"]
              /\ cache = [w \in Workers |-> [i \in Requests |-> "unknown"]]
              /\ shown = {}

\* Mutant: the row of an image is committed on its own.
OpenFile_Autocommit(i) == /\ file' = [file EXCEPT ![i] = "partial"]
                          /\ rows' = rows \cup {i}
                          /\ UNCHANGED <<cache, shown>>

\* handle, up to open(): the row is there for its own transaction only.
OpenFile(i) == /\ file' = [file EXCEPT ![i] = "partial"]
               /\ UNCHANGED <<rows, cache, shown>>

\* Mutant: an error in writing the file is caught, and the request goes on.
WriteFile_ErrorCaught(i) == UNCHANGED images

WriteFile(i) == /\ file' = [file EXCEPT ![i] = "whole"]
                /\ UNCHANGED <<rows, cache, shown>>

CommitRow(i) == rows' = rows \cup {i} /\ UNCHANGED <<file, cache, shown>>

Show(i) == shown' = shown \cup {i} /\ UNCHANGED <<rows, file, cache>>

\* GET /images/{image}: what is remembered counts, or else the file is looked for.
GetImage(w, i) ==
    /\ i \in shown /\ cache[w][i] = "unknown"
    /\ cache' = [cache EXCEPT ![w][i] = IF file[i] = "none" THEN "missing" ELSE "found"]
    /\ UNCHANGED <<rows, file, shown>>

Forget(w, i) == /\ cache[w][i] # "unknown"
                /\ cache' = [cache EXCEPT ![w][i] = "unknown"]
                /\ UNCHANGED <<rows, file, shown>>
-----------------------------------------------------------------------------
\* Whoever is shown the name of an image gets it, whole, from every worker, and
\* no worker has it down as missing (which it would stay, until it is forgotten).
ShownIsServed ==
    \A i \in shown : /\ file[i] = "whole"
                     /\ \A w \in Workers : cache[w][i] # "missing"
=============================================================================
