-------------------------------- MODULE WxConfig --------------------------------
(***************************************************************************)
(* The configuration of the WeChat bot: in memory, in its file, and in the *)
(* service, which forwards the client's messages to the addresses it was   *)
(* last told.  HTTP requests change it next to each other; each holds the  *)
(* manager's lock only while it changes the first two.                     *)
(***************************************************************************)
EXTENDS Naturals, FiniteSets

CONSTANTS Editors,    \* HTTP requests that change the configuration
          Urls,       \* addresses messages are forwarded to
          MaxChanges  \* bound: see Change

ASSUME WxConfigAssumption == MaxChanges \in Nat

VARIABLES cfg,      \* the configuration in memory
          file,     \* and in its file
          urls,     \* the addresses the service forwards to
          editors,  \* the changes under way
          posts,    \* the forwards under way
          changes   \* how many bounded events have happened

cfgVars == <<cfg, file, urls, editors, posts, changes>>

Change == changes < MaxChanges /\ changes' = changes + 1

(* Host and port are any that can be used, or none that can. *)
Config == [host : {"", "here"}, port : {0, 5000}, auth : BOOLEAN, log_recv_callback : 0..2, callback_urls : SUBSET Urls]
validateConfig(c) == c.host # "" /\ c.port \in 1..65535 /\ c.log_recv_callback \in {0, 1}
getDefaultConfig == [host |-> "here", port |-> 5000, auth |-> FALSE, log_recv_callback |-> 0, callback_urls |-> {}]

(* The file there is at the start is one that was saved, or an edited one: only its syntax is looked at. *)
ConfigInit ==
  /\ file \in {getDefaultConfig, [getDefaultConfig EXCEPT !.callback_urls = Urls]}
  /\ cfg = file /\ urls = cfg.callback_urls
  /\ editors = [e \in Editors |-> [stage |-> "none", urls |-> {}]] /\ posts = {} /\ changes = 0

Begins(e) == editors' = [editors EXCEPT ![e].stage = "changed"]
Rejected(e) == editors' = [editors EXCEPT ![e].stage = "ended"]

(* The whole configuration is replaced, unless it is refused. *)
UpdateConfig(e, new) ==
  /\ Change /\ editors[e].stage = "none"
  /\ IF validateConfig(new) THEN cfg' = new /\ file' = new /\ Begins(e) ELSE Rejected(e) /\ UNCHANGED <<cfg, file>>
  /\ UNCHANGED <<urls, posts>>

\* (mutant) the file is written before the whole is looked at
SavedFirst(new) == TRUE
(* Whether what memory holds goes to the file, and the service will hear of it. *)
Saved(new) == validateConfig(new)
(* One item is changed in memory, and the whole looked at after that: what is refused stays in memory. *)
UpdateConfigItem(e, new) ==
  /\ Change /\ editors[e].stage = "none"
  /\ \E key \in DOMAIN new : \A k \in DOMAIN new \ {key} : new[k] = cfg[k]
  /\ cfg' = new
  /\ IF Saved(new) THEN file' = new /\ Begins(e) ELSE Rejected(e) /\ UNCHANGED file
  /\ UNCHANGED <<urls, posts>>

(* An item of a wrong type or an unknown one. *)
ItemRejected(e) ==
  /\ Change /\ editors[e].stage = "none" /\ Rejected(e) /\ UNCHANGED <<cfg, file, urls, posts>>

(* The service is not told: it goes on forwarding. *)
DeleteConfig(e) ==
  /\ Change /\ editors[e].stage = "none" /\ Rejected(e)
  /\ cfg' = getDefaultConfig /\ file' = getDefaultConfig /\ UNCHANGED <<urls, posts>>

(* The lock was given up: what is read now may be another request's change, even one that was refused. *)
GetConfig(e) ==
  /\ editors[e].stage = "changed"
  /\ editors' = [editors EXCEPT ![e] = [stage |-> "read", urls |-> cfg.callback_urls]]
  /\ UNCHANGED <<cfg, file, urls, posts, changes>>

SetCallbackURLs(e) ==
  /\ editors[e].stage = "read"
  /\ urls' = editors[e].urls /\ editors' = [editors EXCEPT ![e] = [stage |-> "ended", urls |-> {}]]
  /\ UNCHANGED <<cfg, file, posts, changes>>

(* A message of the client goes to every address of the moment, each on its own and once. *)
sendToCallbacks ==
  /\ Change /\ posts' = posts \cup urls /\ UNCHANGED <<cfg, file, urls, editors>>

PostEnds(u) ==
  /\ u \in posts /\ posts' = posts \ {u} /\ UNCHANGED <<cfg, file, urls, editors, changes>>

(* The next process reads the file. *)
Load ==
  /\ cfg' = file /\ urls' = file.callback_urls /\ posts' = {}
  /\ editors' = [e \in Editors |-> IF editors[e].stage = "none" THEN editors[e] ELSE [stage |-> "ended", urls |-> {}]]
  /\ UNCHANGED file
ConfigRestart == Change /\ Load

ConfigNext ==
  \/ \E e \in Editors, new \in Config : UpdateConfig(e, new) \/ UpdateConfigItem(e, new)
  \/ \E e \in Editors : ItemRejected(e) \/ DeleteConfig(e) \/ GetConfig(e) \/ SetCallbackURLs(e)
  \/ \E u \in Urls : PostEnds(u)
  \/ sendToCallbacks \/ ConfigRestart

-----------------------------------------------------------------------------
(* The type of every variable; and the file never holds a configuration the server refused: what a     *)
(* refused item left in memory, where a whole sequence of requests may build on it, never reaches the   *)
(* next process.                                                                                        *)
ConfigTypeOK ==
  /\ cfg \in Config /\ file \in {c \in Config : validateConfig(c)} /\ urls \subseteq Urls /\ posts \subseteq Urls
  /\ editors \in [Editors -> [stage : {"none", "changed", "read", "ended"}, urls : SUBSET Urls]]

=============================================================================
