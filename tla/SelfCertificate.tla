--------------------------- MODULE SelfCertificate ---------------------------
(***************************************************************************)
(* The identity of the remote: createSSLCtx and its callees                 *)
(* haveSelfCertificate, makeNewSelfCertificate and ffat_write_buffer        *)
(* (src/src/GoogleIP_Remote.cpp).  A certificate and its private key are    *)
(* made once, written to two files of the FFat partition one after the      *)
(* other, and loaded into every TLS context from there.                     *)
(*                                                                          *)
(* Power may be cut between any two steps; the heap, wolfSSL, the flash and *)
(* the mount may fail; createSSLCtx leaves one file open in each call.      *)
(***************************************************************************)
EXTENDS Naturals

CONSTANTS
    KeyPair,        \* the key pairs wolfSSL can come up with
    MaxOpenFiles,   \* files the FFat mount can have open
    MaxFaults       \* bound: power cuts and failures of callees

ASSUME KeyPairAssumption == KeyPair \cap {"absent", "empty", "partial", "none"} = {}
ASSUME MaxOpenFilesAssumption == MaxOpenFiles \in Nat
ASSUME MaxFaultsAssumption == MaxFaults \in Nat

VARIABLES
    cert,         \* contents of /selfCert.pem
    priKey,       \* contents of /priKey.pem
    mounted,      \* FFat is mounted
    openFiles,    \* files that fopen opened and nothing will close
    ctx,          \* the context of createSSLCtx
    pc,
    pair,         \* the key pair being made
    heap,         \* what the running makeNewSelfCertificate holds
    leaked,       \* what its calls have returned without freeing
    faults,       \* power cuts and failures so far
    writeFailed,  \* a write to the flash has failed
    misjudged     \* two files with contents have been taken for missing

files == <<cert, priKey, writeFailed>>
memory == <<heap, leaked>>
certificateVars ==
    <<cert, priKey, mounted, openFiles, ctx, pc, pair, heap, leaked,
      faults, writeFailed, misjudged>>

Contents == {"absent", "empty", "partial"} \cup KeyPair
HasContents(file) == file \notin {"absent", "empty"}
Complete(file) == file \in KeyPair

(* The scratch buffers with the objects, and what wolfSSL allocates inside  *)
(* two of the objects.                                                      *)
HeapObjects == {"scratch", "rng", "rsaKey"}

MakeSteps == {"initRng", "initKey", "setNonBlock", "makeRsaKey", "signCert",
              "openCert", "writeCert", "openKey", "writeKey"}
PCs == {"idle", "haveCert", "make", "loadCert", "loadKey"} \cup MakeSteps

CertificateTypeOK ==
    /\ cert \in Contents /\ priKey \in Contents
    /\ mounted \in BOOLEAN
    /\ openFiles \in 0..MaxOpenFiles
    /\ ctx \in {"null", "new", "certLoaded", "loaded"}
    /\ pc \in PCs
    /\ pair \in KeyPair \cup {"none"}
    /\ heap \subseteq HeapObjects
    /\ leaked \subseteq HeapObjects \cup {"unmounted"}
    /\ faults \in 0..MaxFaults
    /\ writeFailed \in BOOLEAN /\ misjudged \in BOOLEAN

CertificateInit ==
    /\ cert = "absent" /\ priKey = "absent" /\ mounted = FALSE
    /\ openFiles = 0 /\ ctx = "null" /\ pc = "idle" /\ pair = "none"
    /\ heap = {} /\ leaked = {}
    /\ faults = 0 /\ writeFailed = FALSE /\ misjudged = FALSE

Fault == faults < MaxFaults /\ faults' = faults + 1
NoFault == UNCHANGED faults

-----------------------------------------------------------------------------
(* createSSLCtx, up to the question whether there is a certificate          *)

BeginCtx ==
    /\ pc = "idle"
    /\ \/ NoFault /\ ctx' = "new" /\ pc' = "haveCert"
       \/ Fault /\ ctx' = "null" /\ UNCHANGED pc
    /\ UNCHANGED <<files, mounted, openFiles, pair, memory, misjudged>>

(* haveSelfCertificate opens the key while the certificate is still open.   *)
BugFilesMissing == ~(openFiles + 2 <= MaxOpenFiles /\ HasContents(cert) /\ HasContents(priKey))

FilesFound == openFiles + 2 <= MaxOpenFiles /\ HasContents(cert) /\ HasContents(priKey)

(* The partition is mounted at the first call after a boot, and formatted   *)
(* when it cannot be; each of the two can fail.  So can an open.            *)
FilesSeen ==
    \/ /\ NoFault
       /\ mounted' = TRUE
       /\ pc' = IF FilesFound THEN "loadCert" ELSE "make"
       /\ UNCHANGED <<cert, priKey>>
    \/ /\ Fault
       /\ pc' = "make"
       /\ \/ mounted /\ UNCHANGED <<mounted, cert, priKey>>
          \/ ~mounted /\ UNCHANGED <<mounted, cert, priKey>>
          \/ ~mounted /\ mounted' = TRUE /\ cert' = "absent" /\ priKey' = "absent"

haveSelfCertificate ==
    /\ pc = "haveCert"
    /\ FilesSeen
    /\ misjudged' = (misjudged \/ (HasContents(cert') /\ HasContents(priKey') /\ pc' = "make"))
    /\ UNCHANGED <<writeFailed, openFiles, ctx, pair, memory>>

-----------------------------------------------------------------------------
(* makeNewSelfCertificate                                                   *)

(* createSSLCtx returns when it succeeded, and loads the files when not.    *)
MakeReturns(ok) == pc' = IF ok THEN "idle" ELSE "loadCert"

(* The buffers are allocated before the mount, which formats a partition    *)
(* that cannot be mounted; the exit on a mount that fails even so keeps     *)
(* them.                                                                    *)
MakeBegin ==
    /\ pc = "make"
    /\ \/ /\ mounted' = TRUE
          /\ \/ NoFault /\ UNCHANGED <<cert, priKey>>
             \/ Fault /\ ~mounted /\ cert' = "absent" /\ priKey' = "absent"
          /\ pc' = "initRng" /\ heap' = {"scratch"}
          /\ UNCHANGED leaked
       \/ /\ Fault
          /\ ~mounted /\ UNCHANGED mounted
          /\ MakeReturns(FALSE)
          /\ leaked' = leaked \cup {"unmounted"}
          /\ UNCHANGED <<cert, priKey, heap>>
    /\ UNCHANGED <<writeFailed, openFiles, ctx, pair, misjudged>>

(* A failing step frees what the steps before it have set up.               *)
Frees(objects) == heap' = {} /\ leaked' = leaked \cup (heap \ objects)

MakeFails(step, freed) ==
    /\ pc = step
    /\ Fault
    /\ Frees(freed)
    /\ MakeReturns(FALSE)
    /\ UNCHANGED <<files, mounted, openFiles, ctx, pair, misjudged>>

MakeStep(from, to) ==
    /\ pc = from /\ pc' = to
    /\ NoFault
    /\ UNCHANGED <<mounted, openFiles, ctx, leaked, misjudged>>

InitRng ==
    /\ MakeStep("initRng", "initKey")
    /\ heap' = heap \cup {"rng"}
    /\ UNCHANGED <<files, pair>>

InitKey ==
    /\ MakeStep("initKey", "setNonBlock")
    /\ heap' = heap \cup {"rsaKey"}
    /\ UNCHANGED <<files, pair>>

SetNonBlock ==
    /\ MakeStep("setNonBlock", "makeRsaKey")
    /\ UNCHANGED <<files, pair, heap>>

(* What the progress callback returns meanwhile is dropped.                 *)
MakeRsaKey ==
    /\ MakeStep("makeRsaKey", "signCert")
    /\ pair' \in KeyPair \ {cert, priKey}
    /\ UNCHANGED <<files, heap>>

SignCert ==
    /\ MakeStep("signCert", "openCert")
    /\ UNCHANGED <<files, pair, heap>>

RngFails == MakeFails("initRng", {"scratch"})

BugKeyInitFailsKeepsRng == MakeFails("initKey", {"scratch"})

KeyInitFails == MakeFails("initKey", {"scratch", "rng"})

(* At openCert and openKey it is the conversion to PEM that fails.          *)
LateStepFails ==
    \E step \in {"setNonBlock", "makeRsaKey", "signCert", "openCert", "openKey"} :
        MakeFails(step, HeapObjects)

(* ffat_write_buffer: FA_CREATE_ALWAYS empties the file, contents and size  *)
(* reach the flash when it is closed.                                       *)
BugOpenCertKeepsContents ==
    /\ pc = "openCert"
    /\ cert' = IF HasContents(cert) THEN cert ELSE "empty"
    /\ pc' = IF HasContents(cert) THEN "openKey" ELSE "writeCert"
    /\ NoFault
    /\ UNCHANGED <<priKey, writeFailed, mounted, openFiles, ctx, pair, memory, misjudged>>

OpenCert ==
    /\ MakeStep("openCert", "writeCert")
    /\ cert' = "empty"
    /\ UNCHANGED <<priKey, writeFailed, pair, heap>>

WriteCert ==
    /\ MakeStep("writeCert", "openKey")
    /\ cert' = pair
    /\ UNCHANGED <<priKey, writeFailed, pair, heap>>

OpenKey ==
    /\ MakeStep("openKey", "writeKey")
    /\ priKey' = "empty"
    /\ UNCHANGED <<cert, writeFailed, pair, heap>>

KeyWritten ==
    /\ Frees(HeapObjects)
    /\ MakeReturns(TRUE)
    /\ UNCHANGED <<cert, mounted, openFiles, ctx, pair, misjudged>>

WriteKey ==
    /\ pc = "writeKey"
    /\ priKey' = pair
    /\ NoFault
    /\ KeyWritten
    /\ UNCHANGED writeFailed

(* A failing open keeps the file, a failing write leaves none or part of    *)
(* the contents.  makeNewSelfCertificate ignores what is returned to it.    *)
WriteCertFails ==
    /\ \/ pc = "openCert" /\ UNCHANGED cert
       \/ pc = "writeCert" /\ cert' \in {"empty", "partial"}
    /\ pc' = "openKey"
    /\ Fault
    /\ writeFailed' = TRUE
    /\ UNCHANGED <<priKey, mounted, openFiles, ctx, pair, memory, misjudged>>

WriteKeyFails ==
    /\ \/ pc = "openKey" /\ UNCHANGED priKey
       \/ pc = "writeKey" /\ priKey' \in {"empty", "partial"}
    /\ Fault
    /\ writeFailed' = TRUE
    /\ KeyWritten

-----------------------------------------------------------------------------
(* createSSLCtx, from the files to the context                              *)

(* The check that the certificate can be opened leaves it open.             *)
CanOpen(file, open) == mounted /\ file # "absent" /\ open < MaxOpenFiles
Loadable(file, open) == CanOpen(file, open) /\ Complete(file)

LoadCert ==
    /\ pc = "loadCert"
    /\ openFiles' = IF CanOpen(cert, openFiles) THEN openFiles + 1 ELSE openFiles
    /\ \/ NoFault /\ Loadable(cert, openFiles') /\ ctx' = "certLoaded" /\ pc' = "loadKey"
       \/ NoFault /\ ~Loadable(cert, openFiles') /\ pc' = "idle" /\ UNCHANGED ctx
       \/ Fault /\ pc' = "idle" /\ UNCHANGED ctx
    /\ UNCHANGED <<files, mounted, pair, memory, misjudged>>

(* Nothing compares the key with the certificate.                           *)
LoadKey ==
    /\ pc = "loadKey"
    /\ pc' = "idle"
    /\ \/ NoFault /\ ctx' = IF Loadable(priKey, openFiles) THEN "loaded" ELSE ctx
       \/ Fault /\ UNCHANGED ctx
    /\ UNCHANGED <<files, mounted, openFiles, pair, memory, misjudged>>

-----------------------------------------------------------------------------
(* Everything in RAM is gone, a file that was being written is empty.       *)
PowerCut ==
    /\ Fault
    /\ mounted' = FALSE /\ openFiles' = 0 /\ ctx' = "null" /\ pc' = "idle" /\ pair' = "none"
    /\ heap' = {} /\ leaked' = {}
    /\ UNCHANGED <<files, misjudged>>

Make ==
    \/ MakeBegin \/ InitRng \/ InitKey \/ SetNonBlock \/ MakeRsaKey \/ SignCert
    \/ OpenCert \/ WriteCert \/ OpenKey \/ WriteKey

Call == haveSelfCertificate \/ Make \/ LoadCert \/ LoadKey

CalleeFails == RngFails \/ KeyInitFails \/ LateStepFails \/ WriteCertFails \/ WriteKeyFails

CertificateNext == BeginCtx \/ Call \/ CalleeFails \/ PowerCut

CertificateSpec == CertificateInit /\ [][CertificateNext]_certificateVars

(* A call runs to its end, and the caller asks again while the context has  *)
(* no identity.                                                             *)
Fairness == WF_certificateVars(Call) /\ WF_certificateVars(BeginCtx /\ ctx # "loaded")

CertificateFairSpec == CertificateSpec /\ Fairness

-----------------------------------------------------------------------------
(* Properties                                                               *)

(* Whatever step of makeNewSelfCertificate fails, the buffers, the objects, *)
(* the state of the random generator and of the RSA key are all freed; only *)
(* the exit on a mount that failed keeps what was allocated before it.      *)
ExitsFree == (pc \notin MakeSteps => heap = {}) /\ leaked \subseteq {"unmounted"}

(* The certificate and the private key on the flash belong together when    *)
(* both are whole, wherever a power cut falls between the two files and     *)
(* however often the making is repeated, as long as no write failed and no  *)
(* complete pair was taken for missing: createSSLCtx, which compares        *)
(* nothing, never loads a certificate with the key of another.              *)
PairMatches ==
    /\ ~writeFailed /\ ~misjudged
    /\ Complete(cert) /\ Complete(priKey)
    => cert = priKey

(* A caller that keeps asking gets a context with an identity, whatever cuts*)
(* of the power came in between, unless the files that are never closed use *)
(* up the mount, or a write failed and left part of a file.                 *)
EventuallyLoaded ==
    [](openFiles + 2 <= MaxOpenFiles /\ ~writeFailed) => []<>(ctx = "loaded")

(* "check if we have a cert and provate key on the disk"                    *)
(* (GoogleIP_Remote.cpp:1344): with both on the disk, whole and of one pair,*)
(* and no callee failing, no other is made.                                 *)
OnDiskIsFound ==
    faults = 0 /\ cert = priKey /\ Complete(cert) => pc \notin {"make", "openCert"}
=============================================================================
