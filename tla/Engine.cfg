SPECIFICATION Spec
CHECK_DEADLOCK FALSE
PROPERTY EventsCommitted
PROPERTY FlowSupportAgrees
INVARIANT StreamsFaithful
INVARIANT GraphRunsSound
INVARIANT PlansSound
 
PROPERTY BaseAgentsAgree
INVARIANT LlmAgentsAgree
INVARIANT CallsElsewhereSettle
PROPERTY ImplementsMemoryStore
