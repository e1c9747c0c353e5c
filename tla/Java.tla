-------------------------------- MODULE Java --------------------------------
(***************************************************************************)
(* How a launcher comes by a Java (java.rs): what it probes, in order, and *)
(* the download, each of whose steps may fail or be its last. What is      *)
(* downloaded is shared by every application of the user, while the lock a *)
(* launcher holds is its application's own. A directory is removed file by *)
(* file, and moved in one step.                                            *)
(***************************************************************************)
EXTENDS Integers, FiniteSets

CONSTANTS
    Installers,     \* launchers looking for a Java, of one application each
    Releases,       \* full versions that the latest of the preferred major may be
    java_min,       \* the major version they need
    Majors,         \* what the PATH and the system's lists may offer, NoJava for nothing
    Searches        \* bound: searches begun

NoJava == 0

ASSUME JavaAssumption ==
    /\ java_min \in Nat \ {NoJava} /\ Searches \in Nat
    /\ Majors \subseteq Nat /\ NoJava \notin Releases

VARIABLES
    installs,       \* installs[v]: the directory of release v: "absent", "whole" or "partial"
    link,           \* the release `<preferred>-<bundle>` leads to, or NoJava if there is no link
    search,         \* search[l]: where in find_java l is, "found" or "none"
    release,        \* release[l]: the release l has unpacked, or found installed, or NoJava
    searches,       \* searches begun
    overlapped      \* whether two downloads ever ran at once

javaVars == <<installs, link, search, release, searches, overlapped>>

Downloads == {"fetching", "unpacked", "clearing", "cleared", "installed", "unlinked"}

Downloading == {l \in Installers : search[l] \in Downloads}

JavaInit ==
    /\ installs = [v \in Releases |-> "absent"] /\ link = NoJava
    /\ search = [l \in Installers |-> "idle"]
    /\ release = [l \in Installers |-> NoJava]
    /\ searches = 0 /\ overlapped = FALSE

-----------------------------------------------------------------------------
Reaches(l, to) == search' = [search EXCEPT ![l] = to]

\* check_version, of a java the system offers.
Suits(major) == major >= java_min

\* Mutant: the preferred link is taken without a look at where it leads.
LinkThere == link # NoJava

\* exists() and is_executable, through the link.
LinkWorks == link # NoJava /\ installs[link] # "absent"

\* find_java: the PATH, then the preferred installation - whatever its version - then what
\* the system lists; and for want of these a download, if the user asked for one.
Probe(l) ==
    /\ search[l] = "idle" /\ searches < Searches
    /\ searches' = searches + 1
    /\ \E onPath, listed \in Majors, do_download \in BOOLEAN :
         \/ Suits(onPath) /\ Reaches(l, "found") /\ UNCHANGED <<release, overlapped>>
         \/ /\ ~Suits(onPath) /\ LinkWorks
            /\ Reaches(l, "found") /\ release' = [release EXCEPT ![l] = link]
            /\ UNCHANGED overlapped
         \/ /\ ~Suits(onPath) /\ ~LinkWorks /\ (Suits(listed) \/ ~do_download)
            /\ Reaches(l, IF Suits(listed) THEN "found" ELSE "none")
            /\ UNCHANGED <<release, overlapped>>
         \/ /\ ~Suits(onPath) /\ ~LinkWorks /\ ~Suits(listed) /\ do_download
            /\ Reaches(l, "fetching")
            /\ overlapped' = (overlapped \/ Downloading # {})
            /\ UNCHANGED release
    /\ UNCHANGED <<installs, link>>

\* No directory to download to, nothing to download with, a download or an archive that
\* fails, or an archive with no `release` in it.
FetchFails(l) ==
    /\ search[l] = "fetching"
    /\ Reaches(l, "none")
    /\ UNCHANGED <<installs, link, release, searches, overlapped>>

\* Fetched and unpacked, in a directory of its own.
Unpack(l) ==
    /\ search[l] = "fetching"
    /\ \E v \in Releases : release' = [release EXCEPT ![l] = v]
    /\ Reaches(l, "unpacked")
    /\ UNCHANGED <<installs, link, searches, overlapped>>

\* Mutant: a directory that is there is left there.
ClearsNothing(l) ==
    /\ search[l] \in {"unpacked", "clearing"}
    /\ Reaches(l, "cleared")
    /\ UNCHANGED <<installs, link, release, searches, overlapped>>

\* remove_dir_all of the directory of that release, which is begun and, later, done.
Clears(l) ==
    /\ search[l] \in {"unpacked", "clearing"}
    /\ IF search[l] = "unpacked" /\ installs[release[l]] # "absent"
       THEN installs' = [installs EXCEPT ![release[l]] = "partial"] /\ Reaches(l, "clearing")
       ELSE installs' = [installs EXCEPT ![release[l]] = "absent"] /\ Reaches(l, "cleared")
    /\ UNCHANGED <<link, release, searches, overlapped>>

\* The rename, which fails on a directory that is there again.
Install(l) ==
    /\ search[l] = "cleared"
    /\ IF installs[release[l]] = "absent"
       THEN /\ installs' = [installs EXCEPT ![release[l]] = "whole"]
            /\ Reaches(l, "installed") /\ UNCHANGED release
       ELSE /\ Reaches(l, "none") /\ release' = [release EXCEPT ![l] = NoJava]
            /\ UNCHANGED installs
    /\ UNCHANGED <<link, searches, overlapped>>

Unlink(l) ==
    /\ search[l] = "installed"
    /\ link' = NoJava
    /\ Reaches(l, "unlinked")
    /\ UNCHANGED <<installs, release, searches, overlapped>>

\* The link is made unless there is one, and what was installed is used either way.
MakeLink(l) ==
    /\ search[l] = "unlinked"
    /\ link' = IF link = NoJava THEN release[l] ELSE link
    /\ Reaches(l, "found")
    /\ UNCHANGED <<installs, release, searches, overlapped>>

\* The launch goes on with what was found, or ends without; or the launcher is killed.
Over(l) ==
    /\ search[l] # "idle"
    /\ Reaches(l, "idle")
    /\ release' = [release EXCEPT ![l] = NoJava]
    /\ UNCHANGED <<installs, link, searches, overlapped>>

\* The user removes an installation, with nobody looking.
Uninstall ==
    /\ \A l \in Installers : search[l] = "idle"
    /\ \E v \in Releases :
         /\ installs[v] # "absent"
         /\ installs' = [installs EXCEPT ![v] = "absent"]
    /\ UNCHANGED <<link, search, release, searches, overlapped>>

JavaNext ==
    \/ Uninstall
    \/ \E l \in Installers :
          \/ Probe(l) \/ FetchFails(l) \/ Unpack(l) \/ Clears(l) \/ Install(l)
          \/ Unlink(l) \/ MakeLink(l) \/ Over(l)

JavaSpec == JavaInit /\ [][JavaNext]_javaVars

-----------------------------------------------------------------------------
\* Wherever downloads were killed, what a launcher finds of them or has just installed is
\* whole, and nothing they left makes a later download fail, as long as no two of them
\* overlap (java.rs:10-15, 170-182).
JavaIsWhole ==
    /\ [](~overlapped /\ link # NoJava => installs[link] # "partial")
    /\ [][~overlapped =>
            \A l \in Installers :
               /\ search[l] # "found" /\ search'[l] = "found" /\ release'[l] # NoJava =>
                     installs'[release'[l]] = "whole"
               /\ search[l] = "cleared" => search'[l] # "none"]_javaVars
=============================================================================
