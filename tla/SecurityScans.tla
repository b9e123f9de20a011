---------------------------- MODULE SecurityScans ----------------------------
(***************************************************************************)
(* POST /api/security/scan for one agent: find the scanner, scan every       *)
(* image of the agent's containers, store the scan, then its findings one   *)
(* by one, then replace the agent's image digests, then add the pending     *)
(* host packages.  Nothing ties these statements together, and two scans    *)
(* may run at once.                                                         *)
(***************************************************************************)
EXTENDS Requests, Naturals, FiniteSets

CONSTANTS
    Images,     \* numbered in the order they are scanned
    Vulnerable, \* those the scanner has a finding for
    Deployed    \* the sets of images the agent's containers may have

ASSUME ImagesAssumption ==
    /\ Images \subseteq Nat /\ Vulnerable \subseteq Images
    /\ Deployed \subseteq SUBSET Images

VARIABLES
    scans,      \* rows of "security_scans": the status, by request
    findings,   \* rows of "security_findings": <<request, image>>
    digests,    \* rows of "image_digests": <<request that stored it, image>>
    packages,   \* the requests that added rows to "host_package_updates"
    scan,       \* the locals of a request's handler
    renewer,    \* history: the last request to clear the digests
    unclean     \* history: the requests whose digest rows are not all stored,
                \* or did not find the table cleared

scanVars ==
    <<scans, findings, digests, packages, scan, renewer, unclean>>

Next1(S) == CHOOSE i \in S : \A j \in S : i <= j

Set(c, field, value) == scan' = [scan EXCEPT ![c][field] = value]

-----------------------------------------------------------------------------
(* securityScannerForScan, then the images of the agent's containers.  When  *)
(* the listing fails a scan without scanner is still recorded.              *)
Scanner(c) ==
    /\ at[c] = "scanner"
    /\ \/ \E images \in Deployed, available \in BOOLEAN :
            /\ scan' = [scan EXCEPT ![c].images = images, ![c].left = images,
                            ![c].status = IF available THEN "complete"
                                                       ELSE "unavailable"]
            /\ Go(c, IF available THEN "analyse" ELSE "clear")
       \/ /\ Set(c, "status", "unavailable")
          /\ Go(c, "record")
       \/ /\ Answer(c, "error")
          /\ UNCHANGED scan
    /\ UNCHANGED <<scans, findings, digests, packages, renewer, unclean>>

(* One image is scanned; an image that cannot be leaves the scan failed.     *)
Analyse(c) ==
    /\ at[c] = "analyse"
    /\ LET i == Next1(scan[c].left)
       IN  IF scan[c].left = {}
           THEN Go(c, "record") /\ UNCHANGED scan
           ELSE /\ \/ scan' = [scan EXCEPT ![c].left = @ \ {i},
                                ![c].found = @ \cup ({i} \cap Vulnerable)]
                   \/ scan' = [scan EXCEPT ![c].left = @ \ {i},
                                           ![c].status = "failed"]
                /\ UNCHANGED reqVars
    /\ UNCHANGED <<scans, findings, digests, packages, renewer, unclean>>

(* CreateSecurityScan: the last step of a scan without scanner.              *)
Record(c) ==
    /\ at[c] = "record"
    /\ \/ /\ scans' = [scans EXCEPT ![c] = scan[c].status]
          /\ IF scan[c].status = "unavailable"
             THEN Answer(c, "unavailable") /\ UNCHANGED scan
             ELSE Go(c, "findings") /\ Set(c, "left", scan[c].found)
       \/ Answer(c, "error") /\ UNCHANGED <<scans, scan>>
    /\ UNCHANGED <<findings, digests, packages, renewer, unclean>>

(* InsertSecurityFindings as if a finding that cannot be stored were passed  *)
(* over.                                                                    *)
FindingsPassOver(c) ==
    /\ at[c] = "findings"
    /\ IF scan[c].left = {}
       THEN Go(c, "clear") /\ UNCHANGED <<findings, scan>>
       ELSE /\ \/ findings' = findings \cup {<<c, Next1(scan[c].left)>>}
               \/ UNCHANGED findings
            /\ Set(c, "left", scan[c].left \ {Next1(scan[c].left)})
            /\ UNCHANGED reqVars
    /\ UNCHANGED <<scans, digests, packages, renewer, unclean>>

(* InsertSecurityFindings: the first failure ends the request, and the scan  *)
(* and the findings before it stay.                                         *)
Findings(c) ==
    /\ at[c] = "findings"
    /\ IF scan[c].left = {}
       THEN Go(c, "clear") /\ UNCHANGED <<findings, scan>>
       ELSE \/ /\ findings' = findings \cup {<<c, Next1(scan[c].left)>>}
               /\ Set(c, "left", scan[c].left \ {Next1(scan[c].left)})
               /\ UNCHANGED reqVars
            \/ Answer(c, "error") /\ UNCHANGED <<findings, scan>>
    /\ UNCHANGED <<scans, digests, packages, renewer, unclean>>

Renewing(c) == at[c] = "digests"

(* DeleteImageDigests: a failure is logged and the rows stay.                *)
Clear(c) ==
    /\ at[c] = "clear"
    /\ \/ digests' = {}
       \/ UNCHANGED digests
    /\ renewer' = IF digests' = {} THEN {c} ELSE renewer
    /\ unclean' = IF digests' = {}
                  THEN {d \in Conns : Renewing(d)}
                  ELSE unclean \cup {c}
    /\ Set(c, "left", scan[c].images)
    /\ Go(c, "digests")
    /\ UNCHANGED <<scans, findings, packages>>

(* InsertImageDigest for every image; a failure is passed over.              *)
Digests(c) ==
    /\ at[c] = "digests"
    /\ IF scan[c].left = {}
       THEN Go(c, "packages") /\ UNCHANGED <<digests, scan, unclean>>
       ELSE LET i == Next1(scan[c].left)
            IN  /\ \/ digests' = digests \cup {<<c, i>>} /\ UNCHANGED unclean
                   \/ UNCHANGED digests /\ unclean' = unclean \cup {c}
                /\ Set(c, "left", scan[c].left \ {i})
                /\ UNCHANGED reqVars
    /\ UNCHANGED <<scans, findings, packages, renewer>>

(* recordHostPackageUpdates adds rows when the package manager names any;    *)
(* no failure is reported.                                                  *)
Packages(c) ==
    /\ at[c] = "packages"
    /\ packages' \in {packages, packages \cup {c}}
    /\ IF scan[c].status = "unavailable"
       THEN Go(c, "record")
       ELSE Answer(c, scan[c].status)
    /\ UNCHANGED <<scans, findings, digests, scan, renewer, unclean>>

ScanStep(c) ==
    \/ Scanner(c) \/ Analyse(c) \/ Record(c) \/ Findings(c)
    \/ Clear(c) \/ Digests(c) \/ Packages(c)

ScansInit ==
    /\ scans = [c \in Conns |-> "none"]
    /\ findings = {}
    /\ digests = {}
    /\ packages = {}
    /\ scan = [c \in Conns |-> [images |-> {}, left |-> {}, found |-> {},
                                status |-> "none"]]
    /\ renewer = {}
    /\ unclean = {}

-----------------------------------------------------------------------------
ScansTypeOK ==
    /\ scans \in [Conns -> {"none", "complete", "failed", "unavailable"}]
    /\ findings \subseteq Conns \X Images
    /\ digests \subseteq Conns \X Images
    /\ packages \subseteq Conns
    /\ scan \in [Conns -> [images : SUBSET Images, left : SUBSET Images,
                           found : SUBSET Vulnerable,
                           status : {"none", "complete", "failed", "unavailable"}]]
    /\ renewer \subseteq Conns
    /\ unclean \subseteq Conns

=============================================================================
