---------------------------- MODULE SonosManager ----------------------------
(***************************************************************************)
(* SonosManager with what it is made of: its part of the configuration,    *)
(* OAuth2 (Oauth2Session, OAuth2CodeListener), SonosConnection and         *)
(* SonosClient.  Four threads meet on one oauth2_config:                   *)
(*                                                                         *)
(*   main        reads the configuration, opens the listener and, in the   *)
(*               constructor of SonosManager, installs the configured      *)
(*               token or blocks until the user has authenticated;         *)
(*   listener    a browser redirect starts the request for a token, a      *)
(*               continuation stores the time it came and completes the    *)
(*               authentication; m_Resplock is held only while a request   *)
(*               is started, so that several may be underway;              *)
(*   handler     HandleMessage: Pause or Play needs an access token and    *)
(*               refreshes the one it has as long as that looks expired;   *)
(*   clock       std::chrono::steady_clock, which counts from the boot of  *)
(*               the machine, while a time_point that was never set is 0.  *)
(*                                                                         *)
(* The router runs in main's loop, so commands arrive only once the        *)
(* constructor has returned.  Requests to the token server and the player  *)
(* take one step to be sent and one to be answered.  Reading and replacing *)
(* the token are atomic here although oauth2_config has no lock.           *)
(***************************************************************************)
EXTENDS Configuration

CONSTANTS Files,      (* the configuration files considered                *)
          NoToken,    (* a token with an empty access token                *)
          Unread,     (* the configuration before it is read               *)
          Lifetimes,  (* the values of expires_in the token server sends,  *)
                      (* if it sends one                                   *)
          Redirects,  (* bound: the redirects that are in work at a time   *)
          MaxTime     (* bound: the last time of the clock                 *)

Undefined == -1       (* oauth2_token::undefined_expiration *)

Issued == Lifetimes \cup {Undefined}

ASSUME TimeAssumption == MaxTime \in Nat \ {0} /\ Lifetimes \subseteq Nat
ASSUME FilesAssumption ==
    \A text \in Files : \A name \in Sections :
        text[name] # Nothing => text[name].items \in Items(name)
ASSUME NoTokenAssumption == NoToken \notin Issued

VARIABLES
    file,           (* the text of Configuration.json                      *)
    configuration,  (* m_Configuration                                     *)
    main,           (* where the main thread stands                        *)
    listening,      (* m_Listener.open() succeeded                         *)
    redirect,       (* redirect[r]: how far the work on redirect r is      *)
    completed,      (* m_TaskCompleted: unset, or what it was first set to *)
    token,          (* expires_in of the token in m_Config, or NoToken     *)
    received,       (* m_ReceivedToken                                     *)
    now,            (* steady_clock::now()                                 *)
    handler         (* where HandleMessage stands                          *)

vars == <<file, configuration, main, listening, redirect, completed, token,
          received, now, handler>>

session == <<listening, redirect, completed, token, received, now, handler>>

Ended == main \in {"crashed", "terminated"}

(* The machine has been up for some time when the program starts.          *)
Init ==
    /\ file \in Files
    /\ configuration = Unread
    /\ main = "reading"
    /\ listening = FALSE
    /\ redirect = [r \in Redirects |-> "none"]
    /\ completed = "unset"
    /\ token = NoToken
    /\ received = 0
    /\ now \in 1..MaxTime
    /\ handler = "idle"

-----------------------------------------------------------------------------
(* The main thread *)

ReadConfiguration ==
    /\ main = "reading"
    /\ \E read \in ImplConfiguration(file) :
           IF read = Thrown
           THEN main' = "crashed" /\ UNCHANGED configuration
           ELSE main' = "listening" /\ configuration' = read
    /\ UNCHANGED <<file, session>>

(* Oauth2Session and its listener.  http_listener refuses an address that  *)
(* is not an http URL, as the empty one is, and nobody catches that; a     *)
(* failure to open it, a port in use say, is swallowed.                    *)
OpenListener ==
    /\ main = "listening"
    /\ IF "redirectUrl" \in configuration["Sonos"].given
       THEN main' = "configuring" /\ listening' \in BOOLEAN
       ELSE main' = "terminated" /\ UNCHANGED listening
    /\ UNCHANGED <<file, configuration, redirect, completed, token, received,
                   now, handler>>

(* A configured token comes without the time it runs out, and nothing sets *)
(* the time it was received.                                               *)
SetTokenConfig ==
    /\ main = "configuring"
    /\ "access_token" \in configuration["Sonos"].given
    /\ token' = Undefined
    /\ main' = "running"
    /\ UNCHANGED <<file, configuration, listening, redirect, completed,
                   received, now, handler>>

(* Under _WIN32 a browser asks the user to authenticate.  Elsewhere nobody *)
(* is asked, nor told the address to visit.                                *)
OpenBrowserForAuthentication == main' \in {"asking", "waiting"}

Authenticate ==
    /\ main = "configuring"
    /\ "access_token" \notin configuration["Sonos"].given
    /\ IF token = NoToken THEN OpenBrowserForAuthentication ELSE main' = "running"
    /\ UNCHANGED <<file, configuration, session>>

(* Authorize().get() returns, with a token or without one.                 *)
Authorized ==
    /\ main \in {"asking", "waiting"}
    /\ completed # "unset"
    /\ main' = "running"
    /\ UNCHANGED <<file, configuration, session>>

-----------------------------------------------------------------------------
(* OAuth2CodeListener *)

(* A browser comes back with a code: "/" with a query.                     *)
Redirect(r) ==
    /\ listening
    /\ ~Ended
    /\ redirect[r] = "none"
    /\ redirect' = [redirect EXCEPT ![r] = "requesting"]
    /\ UNCHANGED <<file, configuration, main, listening, completed, token,
                   received, now, handler>>

(* set() of a task_completion_event has an effect only once.               *)
Complete(result) == IF completed = "unset" THEN result ELSE completed

CompletedEarly(r) ==
    /\ redirect[r] = "requesting"
    /\ ~Ended
    /\ token' \in Issued
    /\ redirect' = [redirect EXCEPT ![r] = "stored"]
    /\ completed' = Complete("authenticated")
    /\ UNCHANGED <<file, configuration, main, listening, received, now, handler>>

(* token_from_redirected_uri stores the token before its task ends.        *)
TokenFromRedirectedUri(r) ==
    /\ redirect[r] = "requesting"
    /\ ~Ended
    /\ token' \in Issued
    /\ redirect' = [redirect EXCEPT ![r] = "stored"]
    /\ UNCHANGED <<file, configuration, main, listening, completed, received,
                   now, handler>>

StoresExpirationTime(r) ==
    /\ redirect[r] = "stored"
    /\ ~Ended
    /\ received' = now + token
    /\ completed' = Complete("authenticated")
    /\ redirect' = [redirect EXCEPT ![r] = "none"]
    /\ UNCHANGED <<file, configuration, main, listening, token, now, handler>>

TokenReceived(r) ==
    /\ redirect[r] = "stored"
    /\ ~Ended
    /\ received' = now
    /\ completed' = Complete("authenticated")
    /\ redirect' = [redirect EXCEPT ![r] = "none"]
    /\ UNCHANGED <<file, configuration, main, listening, token, now, handler>>

(* The server answered with an error, an oauth2_exception.                 *)
TokenRefused(r) ==
    /\ redirect[r] = "requesting"
    /\ ~Ended
    /\ completed' = Complete("refused")
    /\ redirect' = [redirect EXCEPT ![r] = "none"]
    /\ UNCHANGED <<file, configuration, main, listening, token, received, now,
                   handler>>

(* Any other exception, the server being out of reach say, leaves the      *)
(* continuation, and a task whose exception nobody observes ends the       *)
(* program.                                                                *)
TokenServerFails(r) ==
    /\ redirect[r] = "requesting"
    /\ ~Ended
    /\ main' = "terminated"
    /\ UNCHANGED <<file, configuration, session>>

ExpiredBeforeItsTime == received + token >= now

AccessTokenExpired == received + token < now

-----------------------------------------------------------------------------
(* The handler thread: SonosClient, SonosConnection::SendPost,             *)
(* Oauth2Session::GetAccessToken                                           *)

HandleMessage ==
    /\ main = "running"
    /\ handler = "idle"
    /\ handler' = "checking"
    /\ UNCHANGED <<file, configuration, main, listening, redirect, completed,
                   token, received, now>>

(* Without a token SendPost returns and the command is gone.               *)
GetAccessToken ==
    /\ ~Ended
    /\ handler \in {"checking", "checkingAgain"}
    /\ handler' = IF token = NoToken THEN "idle"
                  ELSE IF AccessTokenExpired THEN "refreshing" ELSE "posting"
    /\ UNCHANGED <<file, configuration, main, listening, redirect, completed,
                   token, received, now>>

(* token_from_refresh().wait() and the recursive call.                     *)
RefreshToken ==
    /\ ~Ended
    /\ handler = "refreshing"
    /\ token' \in Issued
    /\ handler' = "checkingAgain"
    /\ UNCHANGED <<file, configuration, main, listening, redirect, completed,
                   received, now>>

(* The exception of a failed refresh or a failed post ends in SonosClient, *)
(* which logs it; an answered post is logged, whatever it says.            *)
CommandOver ==
    /\ ~Ended
    /\ handler \in {"refreshing", "posting"}
    /\ handler' = "idle"
    /\ UNCHANGED <<file, configuration, main, listening, redirect, completed,
                   token, received, now>>

Tick ==
    /\ ~Ended
    /\ now < MaxTime
    /\ now' = now + 1
    /\ UNCHANGED <<file, configuration, main, listening, redirect, completed,
                   token, received, handler>>

-----------------------------------------------------------------------------
MainThread ==
    \/ ReadConfiguration
    \/ OpenListener
    \/ SetTokenConfig
    \/ Authenticate
    \/ Authorized

Listener(r) ==
    \/ TokenFromRedirectedUri(r)
    \/ TokenReceived(r)
    \/ TokenRefused(r)
    \/ TokenServerFails(r)

HandlerThread ==
    \/ GetAccessToken
    \/ RefreshToken
    \/ CommandOver

Next ==
    \/ MainThread
    \/ \E r \in Redirects : Redirect(r) \/ Listener(r)
    \/ HandleMessage
    \/ HandlerThread
    \/ Tick

Spec == Init /\ [][Next]_vars

(* Threads run, requests are answered or fail, and a user whom a browser   *)
(* asks to authenticate does so; nobody has to who is not asked.           *)
(* Nobody has to send a command, and time may stand still: nothing here    *)
(* waits for it.                                                           *)
Fairness ==
    /\ WF_vars(MainThread)
    /\ WF_vars(main = "asking" /\ \E r \in Redirects : Redirect(r))
    /\ \A r \in Redirects : WF_vars(Listener(r))
    /\ WF_vars(HandlerThread)

FairSpec == Spec /\ Fairness

-----------------------------------------------------------------------------
(* Properties *)

(* Types of the session's state and of the program counters.               *)
TypeOK ==
    /\ main \in {"reading", "listening", "configuring", "asking",
                 "waiting", "running", "crashed", "terminated"}
    /\ listening \in BOOLEAN
    /\ redirect \in [Redirects -> {"none", "requesting", "stored"}]
    /\ completed \in {"unset", "authenticated", "refused"}
    /\ token \in Issued \cup {NoToken}
    /\ received \in 0..MaxTime
    /\ now \in 1..MaxTime
    /\ handler \in {"idle", "checking", "refreshing", "checkingAgain", "posting"}

(* A section of the file that can be read from end to end is shown to its  *)
(* manager entry for entry; one that cannot leaves no entry at all, never  *)
(* the first few: "proceeding with a "empty" configuration".               *)
AllOrNothing ==
    configuration # Unread =>
        \A name \in Sections :
            IF Whole(name, file[name])
            THEN ShowsAll(name, file[name], configuration[name])
            ELSE configuration[name] = Empty

(* When the authentication has completed with success, whoever was waiting *)
(* for it finds a token that is valid and the time it came: the main       *)
(* thread and the handler read both without a lock.  Only where a token is *)
(* configured may a redirect that comes before SetTokenConfig see its      *)
(* token replaced by the configured one; nobody waits for it then.         *)
AuthenticatedMeansToken ==
    /\ completed = "authenticated"
    /\ "access_token" \notin configuration["Sonos"].given
    => token \in Issued /\ received > 0

(* "request them from the user": a user who is asked lets the constructor  *)
(* of SonosManager return, if the listener could be opened.                *)
StartEnds == main = "asking" ~> main # "asking" \/ ~listening

(* The token this command has refreshed counts as expired: the time it was *)
(* received is not renewed by a refresh, or the server did not say how     *)
(* long it lasts.                                                          *)
FreshButExpired == handler = "checkingAgain" /\ received + token < now

(* A command ends, and gives back the lock the router waits for, unless a  *)
(* token it has just refreshed counts as expired: it then refreshes again, *)
(* without end if that goes on.                                            *)
CommandEnds ==
    handler # "idle" ~> handler = "idle" \/ FreshButExpired \/ Ended

(* Whoever is asked gets the start to its end, and a command that goes on  *)
(* for good refreshes one token after another.  Where nobody is asked main *)
(* may wait for good: elsewhere than under _WIN32, if the file has no      *)
(* token.                                                                  *)
StartAndCommandsEnd == StartEnds /\ CommandEnds
=============================================================================
