-------------------------- MODULE MCEthercatDriver --------------------------
\* EthercatDriver on a small bus: one or two hands, a short sampling period.
EXTENDS EthercatDriver, TLC

\* The slaves are interchangeable in every safety question asked of them.
SlaveSymmetry == Permutations(Slaves)
=============================================================================
