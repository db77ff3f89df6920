-------------------------- MODULE MCCloudReplicate --------------------------
EXTENDS CloudReplicateInv, TLC

CONSTANTS base, gpu, builder, linux,                \* tests
          win25, hyphened, win24, win2022, win2025, \* images
          unmatched, hg, git, rev1, rev2, rev3, none

(* Two spellings of one image; every other image has one.                    *)
NormalOf == [i \in Images |-> IF i = hyphened THEN win25 ELSE i]

Alpha25 == <<"gecko-t", <<"win11", "64", "25h2", "alpha">>>>
Alpha24 == <<"gecko-t", <<"win11", "64", "24h2", "alpha">>>>
AlphaGpu == <<"gecko-t", <<"win11", "64", "25h2", "gpu", "alpha">>>>
Alpha2022 == <<"gecko-1", <<"b", "win2022", "alpha">>>>
Alpha2025 == <<"gecko-1", <<"b", "win2025", "alpha">>>>
Trusted2025 == <<"gecko-3", <<"b", "win2025", "alpha">>>>
AlphaLinux == <<"gecko-t", <<"t", "linux", "2404", "alpha">>>>
Production == <<"gecko-t", <<"win11", "64", "25h2">>>>

RankOf ==
  (Alpha2022 :> 1) @@ (Alpha2025 :> 2) @@ (Trusted2025 :> 3) @@ (AlphaLinux :> 4) @@
  (Alpha24 :> 5) @@ (Production :> 6) @@ (Alpha25 :> 7) @@ (AlphaGpu :> 8)

PoolOf ==
  (base :> Production) @@ (gpu :> <<"gecko-t", <<"win11", "64", "25h2", "gpu">>>>) @@
  (builder :> <<"gecko-3", <<"b", "win2022">>>>) @@ (linux :> <<"gecko-t", <<"t", "linux", "2404">>>>)

Azure(i) == "imageReference" :> i
Arm(i) == "imageId" :> i
Gcp(i) == "disks" :> i

(* As configured; an own pool that boots something else, or nothing that can *)
(* be read; two launch configs of one pool; a pool that is gone.             *)
AllAnswers ==
  {(Alpha25 :> {Azure(a25)}) @@ (Alpha24 :> {Arm(win24)}) @@ (AlphaGpu :> {Azure(win25)})
     @@ (Alpha2022 :> {Azure(b22)}) @@ (Alpha2025 :> {Azure(win2025)})
     @@ (Trusted2025 :> {Azure(win2022)}) @@ (Production :> {Azure(win24)})
     @@ (AlphaLinux :> linuxAlpha) :
       a25 \in {win25, win24, unmatched}, b22 \in {win2022, win2025},
       linuxAlpha \in {{}, {Gcp(win25)}}}
  \union
  {(Alpha24 :> {Azure(win25), Azure(win24)}) @@ (Alpha25 :> {Azure(unmatched) @@ Arm(win25)})
     @@ (AlphaGpu :> {Azure(win24)})}

AllRequests == {{}, {win25}, {hyphened}, {win24}, {win2022}, {win2025}, {win25, win2025}}

RepositoryOf == [t \in Tests |-> IF t = linux THEN git ELSE hg]
Copied == <<Tests, Tests \ {gpu}>>
Revisions == <<(hg :> rev1) @@ (git :> rev2), (hg :> rev3) @@ (git :> none)>>
=============================================================================
