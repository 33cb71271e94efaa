---------------------------- MODULE Credentials ----------------------------
(***************************************************************************)
(* The saved OAuth credentials (runtime/oauth.rs) and the processes that   *)
(* use them: a login, a logout, a start that needs a token and refreshes   *)
(* an expired one (resolve_startup_auth_source).  A process may die at any *)
(* point.  All share one file and the name of one temporary file.          *)
(*                                                                         *)
(* An inode has the contents of a file: Empty, Garbled, or a root object   *)
(* with the tokens (a refresh token and the age of the access token) and   *)
(* an entry of somebody else.  The authorization server is external: it    *)
(* gives every login a refresh token; at a refresh it gives a new one and  *)
(* forgets the old, or keeps to the old.                                   *)
(***************************************************************************)
EXTENDS Naturals, FiniteSets

CONSTANTS Procs,         \* processes, each one login, logout or start
          MaxAge,        \* how often the clock passes an expiry
          None, Empty, Garbled

VARIABLES proc,          \* what each process does and knows
          name,          \* inode of the file and of the temporary file
          inode,         \* contents
          now, valid, rotates,   \* clock and server
          overlapped,    \* history: two writes of the temporary file met
          lost           \* history: a process died or failed with tokens in hand

vars == <<proc, name, inode, now, valid, rotates, overlapped, lost>>

First == "first"
Inodes == Procs \cup {First}
Refreshes == Procs \cup {First}            \* refresh tokens, by who received them
Tokens == [refresh : Refreshes \cup {None}, born : 0..MaxAge]
Roots == [oauth : Tokens \cup {None}, other : BOOLEAN]
NoRoot == [oauth |-> None, other |-> FALSE]
Idle == [op |-> None, pc |-> "new", tokens |-> None, root |-> NoRoot, to |-> None]

(* What the constants stand for is told apart.                             *)
Distinct ==
    /\ First \notin Procs /\ None \notin Inodes /\ MaxAge \in Nat
    /\ None \notin Tokens /\ {None, Empty, Garbled} \cap Roots = {}
    /\ Empty # Garbled

Expired(tokens) == tokens.born < now
Ends(p, how) == proc' = [proc EXCEPT ![p].pc = how]
At(p, pc) == proc[p].pc = pc
Disk == <<name, inode>>
Server == <<now, valid, rotates>>

(* read_credentials_root: no file and an empty file are an empty object.   *)
Readable == name.live = None \/ inode[name.live] # Garbled
Root == IF name.live = None \/ inode[name.live] = Empty THEN NoRoot ELSE inode[name.live]

-----------------------------------------------------------------------------
(* The user starts a process; a login has its code.                        *)
Start(p) ==
    /\ At(p, "new")
    /\ \E op \in {"login", "logout", "start"} :
         proc' = [proc EXCEPT ![p].op = op,
                              ![p].pc = CASE op = "login" -> "exchange" [] op = "logout" -> "read"
                                          [] OTHER -> "load"]
    /\ UNCHANGED <<Disk, Server, overlapped, lost>>

(* exchange_oauth_code                                                     *)
Exchange(p) ==
    /\ At(p, "exchange")
    /\ \/ /\ valid' = valid \cup {p}
          /\ proc' = [proc EXCEPT ![p].pc = "read", ![p].tokens = [refresh |-> p, born |-> now]]
       \/ Ends(p, "failed") /\ UNCHANGED valid
    /\ UNCHANGED <<Disk, now, rotates, overlapped, lost>>

(* load_saved_oauth_token, and what it makes necessary.                    *)
Load(p) ==
    /\ At(p, "load")
    /\ IF ~Readable \/ Root.oauth = None THEN Ends(p, "failed")
       ELSE proc' = [proc EXCEPT ![p].tokens = Root.oauth,
                                 ![p].pc = IF ~Expired(Root.oauth) THEN "ready"
                                           ELSE IF Root.oauth.refresh = None THEN "failed"
                                           ELSE "refresh"]
    /\ UNCHANGED <<Disk, Server, overlapped, lost>>

(* Faulty variant: an answer without a refresh token takes the old one away. *)
RefreshForgetful(p) ==
    LET old == proc[p].tokens.refresh IN
    /\ At(p, "refresh")
    /\ \/ /\ old \in valid
          /\ valid' = IF rotates THEN (valid \ {old}) \cup {p} ELSE valid
          /\ proc' = [proc EXCEPT ![p].pc = "read",
                        ![p].tokens = [refresh |-> IF rotates THEN p ELSE None, born |-> now]]
          /\ UNCHANGED lost
       \/ Ends(p, "failed") /\ UNCHANGED <<valid, lost>>
    /\ UNCHANGED <<Disk, now, rotates, overlapped>>

(* refresh_oauth_token: an answer without a refresh token leaves the old   *)
(* one in place; a request may fail before the server has acted or after.  *)
Refresh(p) ==
    LET old == proc[p].tokens.refresh
        spent == IF rotates THEN (valid \ {old}) \cup {p} ELSE valid IN
    /\ At(p, "refresh")
    /\ \/ /\ old \in valid /\ valid' = spent
          /\ proc' = [proc EXCEPT ![p].pc = "read",
                        ![p].tokens = [refresh |-> IF rotates THEN p ELSE old, born |-> now]]
          /\ UNCHANGED lost
       \/ /\ old \in valid /\ valid' = spent /\ lost' = TRUE
          /\ Ends(p, "failed")
       \/ Ends(p, "failed") /\ UNCHANGED <<valid, lost>>
    /\ UNCHANGED <<Disk, now, rotates, overlapped>>

-----------------------------------------------------------------------------
(* save_oauth_credentials and clear_oauth_credentials: read the root,      *)
(* truncate or create the temporary file, write it, rename it.             *)

Writers == {p \in Procs : proc[p].pc \in {"write", "rename"}}
HasTokens(p) == proc[p].op # "logout"

ReadRoot(p) ==
    /\ At(p, "read")
    /\ IF Readable
       THEN /\ proc' = [proc EXCEPT ![p].pc = "open",
                          ![p].root = [Root EXCEPT !.oauth = proc[p].tokens]]
            /\ UNCHANGED lost
       ELSE Ends(p, "failed") /\ lost' = (lost \/ HasTokens(p))
    /\ UNCHANGED <<Disk, Server, overlapped>>

(* Faulty variant: the file itself is opened for writing.                  *)
OpenInPlace(p) ==
    LET i == IF name.live = None THEN p ELSE name.live IN
    /\ At(p, "open")
    /\ name' = [live |-> i, temp |-> i] /\ inode' = [inode EXCEPT ![i] = Empty]
    /\ proc' = [proc EXCEPT ![p].pc = "write", ![p].to = i]
    /\ overlapped' = (overlapped \/ Writers # {})
    /\ UNCHANGED <<Server, lost>>

Open(p) ==
    LET i == IF name.temp = None THEN p ELSE name.temp IN
    /\ At(p, "open")
    /\ name' = [name EXCEPT !.temp = i] /\ inode' = [inode EXCEPT ![i] = Empty]
    /\ proc' = [proc EXCEPT ![p].pc = "write", ![p].to = i]
    /\ overlapped' = (overlapped \/ Writers # {})
    /\ UNCHANGED <<Server, lost>>

Size(root) == (IF root.other THEN 1 ELSE 0)
              + (IF root.oauth = None THEN 0 ELSE IF root.oauth.refresh = None THEN 1 ELSE 2)

(* The end of longer contents stays behind shorter ones.                   *)
Write(p) ==
    LET i == proc[p].to root == proc[p].root IN
    /\ At(p, "write") /\ Ends(p, "rename")
    /\ inode' = [inode EXCEPT ![i] = IF @ = Empty THEN root
                                     ELSE IF @ = Garbled \/ Size(root) < Size(@) THEN Garbled
                                     ELSE root]
    /\ UNCHANGED <<name, Server, overlapped, lost>>

(* The rename takes whatever has the temporary name now.                   *)
Rename(p) ==
    /\ At(p, "rename")
    /\ IF name.temp = None
       THEN /\ Ends(p, "failed") /\ lost' = (lost \/ HasTokens(p)) /\ UNCHANGED name
       ELSE /\ name' = [live |-> name.temp, temp |-> None]
            /\ Ends(p, "ready") /\ UNCHANGED lost
    /\ UNCHANGED <<inode, Server, overlapped>>

-----------------------------------------------------------------------------
InHand(p) == proc[p].pc \in {"read", "open", "write", "rename"} /\ HasTokens(p)

Die(p) ==
    /\ proc[p].pc \notin {"new", "ready", "failed"}
    /\ Ends(p, "failed") /\ lost' = (lost \/ InHand(p))
    /\ UNCHANGED <<Disk, Server, overlapped>>

Tick ==
    /\ now < MaxAge /\ now' = now + 1
    /\ UNCHANGED <<proc, Disk, valid, rotates, overlapped, lost>>

(* The file at first: none, or one with another entry and perhaps tokens.  *)
Init ==
    /\ proc = [p \in Procs |-> Idle]
    /\ name \in [live : {None, First}, temp : {None}]
    /\ \E t \in {None, [refresh |-> First, born |-> 0]} :
         inode = [i \in Inodes |-> IF i # First THEN Empty
                                  ELSE IF name.live = None THEN NoRoot
                                  ELSE [oauth |-> t, other |-> TRUE]]
    /\ now = 0 /\ valid = {First} /\ rotates \in BOOLEAN
    /\ overlapped = FALSE /\ lost = FALSE

Next ==
    \/ Tick
    \/ \E p \in Procs : \/ Start(p) \/ Exchange(p) \/ Load(p) \/ Refresh(p)
                        \/ ReadRoot(p) \/ Open(p) \/ Write(p) \/ Rename(p) \/ Die(p)

Spec == Init /\ [][Next]_vars

-----------------------------------------------------------------------------
(* Properties *)

TypeOK ==
    /\ proc \in [Procs -> [op : {None, "login", "logout", "start"},
                           pc : {"new", "exchange", "load", "refresh", "read", "open", "write",
                                 "rename", "ready", "failed"},
                           tokens : Tokens \cup {None}, root : Roots, to : Inodes \cup {None}]]
    /\ name \in [live : Inodes \cup {None}, temp : Inodes \cup {None}]
    /\ inode \in [Inodes -> Roots \cup {Empty, Garbled}]
    /\ now \in 0..MaxAge /\ valid \subseteq Refreshes
    /\ rotates \in BOOLEAN /\ overlapped \in BOOLEAN /\ lost \in BOOLEAN

(* Whatever processes die and in whatever order they write, one at a time, *)
(* the file stays whole and keeps what others have put into it.  (Two that *)
(* write at once share the temporary file and may leave an empty one or a  *)
(* mixture, after which not even a login succeeds.)                        *)
FileIsWhole ==
    ~overlapped /\ name.live # None =>
        /\ inode[name.live] \in Roots
        /\ inode[First] \in Roots => inode[name.live].other = inode[First].other

(* The user is not logged out behind his back: tokens in the file can be   *)
(* refreshed, unless a process has lost those it had just been given, or   *)
(* has not saved them yet.                                                 *)
TokensCanBeRefreshed ==
    ~overlapped /\ ~lost /\ (\A p \in Procs : ~InHand(p)) /\ Readable /\ Root.oauth # None =>
        Root.oauth.refresh \in valid
=============================================================================
