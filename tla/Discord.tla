------------------------------ MODULE Discord ------------------------------
(***************************************************************************)
(* A club's Discord connection: members turn it on and off and choose its  *)
(* channels, the collector delivers messages, possibly more than once, and *)
(* each new message is judged with the ones before it                      *)
(* (services/discord_service.py, context_service.decide_discord_message).  *)
(***************************************************************************)
EXTENDS Naturals, FiniteSets

CONSTANTS DiscordMessages, \* message ids
          Channels,
          Collectors,      \* deliveries that may overlap
          Editors,         \* members' requests that may overlap
          Nothing,
          MaxConnection    \* bound on the connection's version

VARIABLES connection, \* the DiscordConnection row
          posted,     \* DiscordMessage rows
          decision,   \* ContextDecision rows of those messages
          delivery,   \* deliveries under way
          edit        \* the row a member's request has read

discordVars == <<connection, posted, decision, delivery, edit>>

Connection == [mode: {"FIXTURE", "LIVE"}, enabled: BOOLEAN,
               channels: SUBSET Channels, version: Nat,
               status: {"MONITORING", "PAUSED", "DISCONNECTED"}]

DiscordMessage == [id: DiscordMessages, channel: Channels]

\* A judgement of `message`; `sources` is the window it was given.
DiscordDecision == [message: DiscordMessage, sources: SUBSET DiscordMessage,
                    suggests: BOOLEAN]

connection_status(mode, enabled) ==
    IF ~enabled THEN "PAUSED"
    ELSE IF mode = "FIXTURE" THEN "MONITORING" ELSE "DISCONNECTED"

DiscordTypeOK ==
    /\ connection \in Connection
    /\ posted \subseteq DiscordMessage
    /\ decision \subseteq DiscordDecision
    /\ delivery \in [Collectors -> DiscordMessage \cup {Nothing}]
    /\ edit \in [Editors -> Connection \cup {Nothing}]

create_connection ==
    \E mode \in {"FIXTURE", "LIVE"}, enabled \in BOOLEAN :
        connection = [mode |-> mode, enabled |-> enabled,
                      channels |-> Channels, version |-> 1,
                      status |-> connection_status(mode, enabled)]

DiscordInit ==
    /\ create_connection
    /\ posted = {} /\ decision = {}
    /\ delivery = [c \in Collectors |-> Nothing]
    /\ edit = [u \in Editors |-> Nothing]

\* get_connection, without a lock.
read_connection(u) ==
    /\ edit[u] = Nothing
    /\ edit' = [edit EXCEPT ![u] = connection]
    /\ UNCHANGED <<connection, posted, decision, delivery>>

\* Only the columns the request changed are written; the version is compared
\* with the row as it was read.
update_connection(u, enabled, channels) ==
    LET row == edit[u]
        status == connection_status(row.mode, enabled)
    IN
    /\ row # Nothing /\ row.version < MaxConnection
    /\ connection' = [connection EXCEPT
           !.enabled = IF enabled = row.enabled THEN @ ELSE enabled,
           !.channels = IF channels = row.channels THEN @ ELSE channels,
           !.status = IF status = row.status THEN @ ELSE status,
           !.version = row.version + 1]
    /\ edit' = [edit EXCEPT ![u] = Nothing]
    /\ UNCHANGED <<posted, decision, delivery>>

\* VersionConflict: the member had seen another version.
refuse_update(u) ==
    /\ edit[u] # Nothing
    /\ edit' = [edit EXCEPT ![u] = Nothing]
    /\ UNCHANGED <<connection, posted, decision, delivery>>

\* ingest_fixture_event: monitoring is on, the channel is allowed and the
\* message is new.
ingest_fixture_event(c, message) ==
    /\ delivery[c] = Nothing
    /\ connection.enabled /\ message.channel \in connection.channels
    /\ \A row \in posted : row.id # message.id
    /\ delivery' = [delivery EXCEPT ![c] = message]
    /\ UNCHANGED <<connection, posted, decision, edit>>

\* Fault: a message that comes twice is stored twice.
StoreAgain(message) == TRUE

\* The unique constraint on connection and message id.
not_stored(message) == \A row \in posted : row.id # message.id

\* The message, its judgement and a task suggestion are one transaction; the
\* window is what was posted before in the same channel.
decide_discord_message(c, suggests) ==
    LET message == delivery[c] IN
    /\ message # Nothing /\ not_stored(message)
    /\ posted' = posted \cup {message}
    /\ \E earlier \in SUBSET {row \in posted : row.channel = message.channel} :
           decision' = decision \cup
               {[message |-> message, sources |-> earlier \cup {message},
                 suggests |-> suggests]}
    /\ delivery' = [delivery EXCEPT ![c] = Nothing]
    /\ UNCHANGED <<connection, edit>>

\* The constraint is violated, or the process stops: nothing is kept.
delivery_fails(c) ==
    /\ delivery[c] # Nothing
    /\ delivery' = [delivery EXCEPT ![c] = Nothing]
    /\ UNCHANGED <<connection, posted, decision, edit>>

DiscordNext ==
    \/ \E u \in Editors :
           \/ read_connection(u) \/ refuse_update(u)
           \/ \E enabled \in BOOLEAN, channels \in SUBSET Channels :
                  update_connection(u, enabled, channels)
    \/ \E c \in Collectors :
           \/ \E message \in DiscordMessage : ingest_fixture_event(c, message)
           \/ \E suggests \in BOOLEAN : decide_discord_message(c, suggests)
           \/ delivery_fails(c)

----------------------------------------------------------------------------
(* Properties *)

\* Redelivered and overlapping messages are judged once ("같은 Discord 메시지는
\* 다시 수집해도 새 행이 아니라 같은 행이다", models/discord.py), from messages
\* that are stored; and whatever edits overlap, the status shown is that of
\* the setting.
DiscordIsReadOnce ==
    /\ DiscordTypeOK
    /\ \A row, other \in posted \cup {d.message : d \in decision} :
           row.id = other.id => row = other
    /\ \A d, other \in decision : d.message = other.message => d = other
    /\ \A d \in decision : d.sources \subseteq posted
    /\ connection.status =
           IF connection.enabled
           THEN IF connection.mode = "FIXTURE" THEN "MONITORING" ELSE "DISCONNECTED"
           ELSE "PAUSED"
=============================================================================
