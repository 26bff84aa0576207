-------------------------- MODULE MCTopicLifecycle --------------------------
EXTENDS TopicLifecycle, TLC

CONSTANTS t1, c1, c2

ClientSymmetry == Permutations(Client)

=============================================================================
