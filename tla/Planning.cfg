SPECIFICATION PlanningSpec
CONSTANTS
  Plans <- AllPlans
  Bits = 2
  DefaultPod <- DefaultPodBlock
  DefaultService <- DefaultServiceBlock
  MaxWorkers = 1
  MaxClusterId = 1
  PodTexts <- SomePods
  ServiceTexts <- SomeServices
  Kernels <- SomeKernels
  OutputCap = 5
  PlanIds <- SomeIds
  MaxLines = 2
  MaxLost = 2
INVARIANT TimelineTellsTheRun
INVARIANT DependenciesComeFirst
INVARIANT PlansKeepTheirOrder
INVARIANT SpecsFitTheirPlan
INVARIANT CommandsFitTheCluster
CHECK_DEADLOCK FALSE
